---- MODULE Spec2Model ----
(***************************************************************************)
(* Memory management core of Oxid OS: frame bitmap, 4-level page tables    *)
(* reached through the self-referencing PML4 entry, the VMM wrappers, the  *)
(* heap region lists with their slot pools, the dynamic allocator, the     *)
(* page-fault policy and the interrupt-disabling mutex.                    *)
(*                                                                         *)
(* Machine words that hold addresses are 64 bits wide; they are kept as    *)
(* pairs <<pg, off>> with off the low 12 bits and pg the upper 52 bits     *)
(* read as a two's-complement number (so the high canonical half has       *)
(* negative pg).  Sizes, counts and indices are plain integers.            *)
(***************************************************************************)
EXTENDS Integers, Sequences, FiniteSets, TLC

(***************************************************************************)
(* Program constants                                                       *)
(***************************************************************************)
FRAME_SIZE == 4096
PAGE_SIZE == FRAME_SIZE
ALIGNMENT == 4096
NUM_BITS_PER_FIELD == 64
NUM_ENTRIES == 512
SELF_ENTRY_IDX == 511
OPT_NODE_SIZE == 40

\* the None / Err value of an optional index and of an optional address
NoIdx == -1
NoAddr == << >>

\* a let binding of the code: the rest F of the block, run on the value v
Bind(v, F(_)) == F(v)

VARIABLES
    bm,         \* FRAME_ALLOCATOR: the frame bitmap
    ptmem,      \* physical frames that hold page tables: frame -> idx -> entry
    heap,       \* HEAP_ALLOC: free list, used list, allocation counter
    halted,     \* "no", or the reason of the fatal stop (panic)
    op,         \* the last operation performed, with its inputs and result
    handed,     \* set of frames returned by alloc(), not deallocated since
    live,       \* heap allocations returned to callers and not freed since
    mapped,     \* pages given to PageTables::map and not unmapped since
    cpu         \* interrupt flag, the two mutexes and the call stack

vars == <<bm, ptmem, heap, halted, op, handed, live, mapped, cpu>>

(***************************************************************************)
(* Bounds of the model                                                     *)
(***************************************************************************)
\* pages of physical memory after the kernel image (bitmap page included)
UsablePages == 129
\* page number where the kernel image ends
KernelEndPage == 8
\* whole pages of the heap region donated to the allocator
HeapPages == 3

(***************************************************************************)
(* 64-bit address words as <<pg, off>>                                     *)
(***************************************************************************)
W(pg, off) == <<pg, off>>

\* w + n (n may be negative), carrying between the two limbs
WAdd(w, n) ==
    LET t == w[2] + n
    IN  <<w[1] + (t \div PAGE_SIZE), t % PAGE_SIZE>>

\* w1 - w2 as an integer number of bytes
WSub(w1, w2) == (w1[1] - w2[1]) * PAGE_SIZE + (w1[2] - w2[2])

\* unsigned comparison of two words
WLt(a, b) ==
    IF (a[1] < 0) # (b[1] < 0)
    THEN b[1] < 0
    ELSE a[1] < b[1] \/ (a[1] = b[1] /\ a[2] < b[2])

WLe(a, b) == a = b \/ WLt(a, b)

\* addr & !0xFFF
PageOf(w) == <<w[1], 0>>

(***************************************************************************)
(* mem/align.rs                                                            *)
(***************************************************************************)
\* on sizes: (addr + (alignment - 1)) & !(alignment - 1), alignment 2^k
align_higher(addr, alignment) ==
    ((addr + (alignment - 1)) \div alignment) * alignment

align_lower(addr, alignment) == addr - (addr % alignment)

\* the same functions on address words, for alignments that divide a page
\* (the limbs split at a multiple of the alignment) or are page multiples
align_higher_w(w, alignment) ==
    IF alignment <= PAGE_SIZE
    THEN WAdd(<<w[1], 0>>, align_higher(w[2], alignment))
    ELSE LET pgs == alignment \div PAGE_SIZE
             up  == IF w[2] = 0 THEN w[1] ELSE w[1] + 1
         IN  <<((up + (pgs - 1)) \div pgs) * pgs, 0>>

align_lower_w(w, alignment) ==
    IF alignment <= PAGE_SIZE
    THEN <<w[1], align_lower(w[2], alignment)>>
    ELSE LET pgs == alignment \div PAGE_SIZE
         IN  <<w[1] - (w[1] % pgs), 0>>

(***************************************************************************)
(* mem/region.rs                                                           *)
(***************************************************************************)
Region_new_sized(addr, size) == [addr |-> addr, size |-> size]

Region_new(start_addr, end_addr) ==
    [addr |-> start_addr, size |-> WSub(end_addr, start_addr)]

\* computes the aligned bounds, then builds the region from the originals
Region_new_aligned(start_addr, end_addr, alignment) ==
    [addr |-> start_addr, size |-> WSub(end_addr, start_addr)]

\* Region::default()
NoRegion == Region_new_sized(W(0, 0), 0)

end_addr(r) == WAdd(r.addr, r.size)

\* bytes covered by a region, as a predicate on an address word
InRegion(r, w) == WLe(r.addr, w) /\ WLt(w, end_addr(r))

\* two regions share at least one byte
Overlap(r1, r2) ==
    /\ r1.size > 0
    /\ r2.size > 0
    /\ WLt(r1.addr, end_addr(r2))
    /\ WLt(r2.addr, end_addr(r1))

(***************************************************************************)
(* mem/bitwise.rs : a usize bit field is the set of its set bits           *)
(***************************************************************************)
USIZE_MAX == 0 .. (NUM_BITS_PER_FIELD - 1)

is_clear(field, bit_num) == bit_num \notin field
is_set(field, bit_num) == ~is_clear(field, bit_num)
set_bit(field, bit_num) == field \cup {bit_num}
clear_bit(field, bit_num) == field \ {bit_num}

(***************************************************************************)
(* mem/frame_alloc/bitmap.rs                                               *)
(***************************************************************************)
has_free(field) == field # USIZE_MAX

\* the mutant of get_free: the highest clear bit
get_free_last(field) ==
    IF \E b \in USIZE_MAX : is_clear(field, b)
    THEN CHOOSE b \in USIZE_MAX :
            /\ is_clear(field, b)
            /\ \A c \in USIZE_MAX : is_clear(field, c) => c <= b
    ELSE NoIdx

get_free(field) ==
    IF \E b \in USIZE_MAX : is_clear(field, b)
    THEN CHOOSE b \in USIZE_MAX :
            /\ is_clear(field, b)
            /\ \A c \in USIZE_MAX : is_clear(field, c) => b <= c
    ELSE NoIdx

\* BitMap::new followed by purge
BitMap_new(usable_region) ==
    LET aligned == Region_new_aligned(usable_region.addr,
                                      end_addr(usable_region), ALIGNMENT)
        aligned_start_addr == aligned.addr
        aligned_end_addr == end_addr(aligned)
        raw_size == (WSub(aligned_end_addr, aligned_start_addr)
                        \div FRAME_SIZE) \div 8
        bitmap_size == IF raw_size = 0 THEN 1 ELSE raw_size
        start_frames == align_higher_w(WAdd(aligned_start_addr, bitmap_size),
                                       ALIGNMENT)
        num_frames == WSub(aligned_end_addr, start_frames) \div FRAME_SIZE
        len == num_frames \div NUM_BITS_PER_FIELD
    IN  [frames_start |-> start_frames,
         frames_count |-> num_frames,
         map_addr |-> aligned_start_addr,
         map |-> [i \in 0 .. (len - 1) |-> {}],
         first_free |-> 0]

\* purge that leaves the cursor where it is
BitMap_purge_words(b) == [b EXCEPT !.map = [i \in DOMAIN b.map |-> {}]]

\* BitMap::purge: every word zero, the cursor back at the first word
BitMap_purge(b) ==
    [b EXCEPT !.map = [i \in DOMAIN b.map |-> {}], !.first_free = 0]

MapLen(b) == Cardinality(DOMAIN b.map)

\* index of the first word at or after first_free that has a free bit
FirstFreeWord(b) ==
    LET cand == {i \in DOMAIN b.map : i >= b.first_free /\ has_free(b.map[i])}
    IN  IF cand = {} THEN NoIdx
        ELSE CHOOSE i \in cand : \A j \in cand : i <= j

BitMap_alloc_skip_set(b) ==
    Bind(FirstFreeWord(b), LAMBDA i :
        IF i = NoIdx
        THEN [bm |-> b, res |-> "Full", num |-> 0]
        ELSE [bm |-> [b EXCEPT !.first_free = i],
              res |-> "Allocated",
              num |-> (i * NUM_BITS_PER_FIELD) + get_free(b.map[i])])

BitMap_alloc(b) ==
    Bind(FirstFreeWord(b), LAMBDA i :
        IF i = NoIdx
        THEN [bm |-> b, res |-> "Full", num |-> 0]
        ELSE Bind(get_free(b.map[i]), LAMBDA free_bit_num :
                [bm |-> [b EXCEPT !.map[i] = set_bit(@, free_bit_num),
                                  !.first_free = i],
                 res |-> "Allocated",
                 num |-> (i * NUM_BITS_PER_FIELD) + free_bit_num]))

\* res "Panic" is the slice index out of bounds when the frame has no word
BitMap_alloc_frame_num(b, frame_num) ==
    IF frame_num >= b.frames_count
    THEN [bm |-> b, res |-> "InvalidFrameNum"]
    ELSE LET map_idx == frame_num \div NUM_BITS_PER_FIELD
             bit_num == frame_num % NUM_BITS_PER_FIELD
         IN  IF map_idx \notin DOMAIN b.map
             THEN [bm |-> b, res |-> "Panic"]
             ELSE IF is_clear(b.map[map_idx], bit_num)
                  THEN [bm |-> [b EXCEPT !.map[map_idx] = set_bit(@, bit_num)],
                        res |-> "Allocated"]
                  ELSE [bm |-> b, res |-> "AlreadyUsed"]

\* the mutant of BitMap_dealloc: the whole word of the frame is cleared
BitMap_dealloc_word(b, frame_num) ==
    IF frame_num < b.frames_count
       /\ (frame_num \div NUM_BITS_PER_FIELD) \in DOMAIN b.map
    THEN [bm |-> [b EXCEPT !.map[frame_num \div NUM_BITS_PER_FIELD] = {}],
          res |-> "Ok"]
    ELSE [bm |-> b, res |-> "Ok"]

BitMap_dealloc(b, frame_num) ==
    IF frame_num < b.frames_count
    THEN LET map_idx == frame_num \div NUM_BITS_PER_FIELD
         IN  IF map_idx \notin DOMAIN b.map
             THEN [bm |-> b, res |-> "Panic"]
             ELSE [bm |-> [b EXCEPT
                        !.map[map_idx] =
                            clear_bit(@, frame_num % NUM_BITS_PER_FIELD),
                        !.first_free =
                            IF @ > map_idx THEN map_idx ELSE @],
                   res |-> "Ok"]
    ELSE [bm |-> b, res |-> "Ok"]

addr_to_frame(b, addr) ==
    IF WLt(addr, b.frames_start)
       \/ WLt(WAdd(b.frames_start, b.frames_count * FRAME_SIZE), addr)
    THEN NoIdx
    ELSE WSub(addr, b.frames_start) \div FRAME_SIZE

frame_to_addr(b, frame_num) ==
    IF frame_num < b.frames_count
    THEN WAdd(b.frames_start, frame_num * FRAME_SIZE)
    ELSE NoAddr

get_mappable_region(b) ==
    Region_new_sized(b.frames_start, b.frames_count * FRAME_SIZE)

(***************************************************************************)
(* mem/frame_alloc/mod.rs : the locked wrappers, as results on a bitmap    *)
(***************************************************************************)
frame_alloc_alloc(b) ==
    Bind(BitMap_alloc(b), LAMBDA r :
        IF r.res = "Allocated"
        THEN [bm |-> r.bm, res |-> "Ok", addr |-> frame_to_addr(r.bm, r.num)]
        ELSE [bm |-> r.bm, res |-> "Full", addr |-> NoAddr])

frame_alloc_alloc_frame(b, physical_addr) ==
    Bind(addr_to_frame(b, physical_addr), LAMBDA frame_num :
        IF frame_num = NoIdx
        THEN [bm |-> b, res |-> "InvalidAddr", addr |-> NoAddr]
        ELSE Bind(BitMap_alloc_frame_num(b, frame_num), LAMBDA r :
                CASE r.res = "AlreadyUsed" ->
                        [bm |-> r.bm, res |-> "Err", addr |-> NoAddr]
                  [] r.res \in {"InvalidFrameNum", "Panic"} ->
                        [bm |-> r.bm, res |-> "Panic", addr |-> NoAddr]
                  [] OTHER ->
                        [bm |-> r.bm, res |-> "Ok",
                         addr |-> frame_to_addr(r.bm, frame_num)]))

frame_alloc_dealloc(b, physical_addr) ==
    Bind(addr_to_frame(b, physical_addr), LAMBDA frame_num :
        IF frame_num = NoIdx
        THEN [bm |-> b, res |-> "InvalidAddr"]
        ELSE Bind(BitMap_dealloc(b, frame_num), LAMBDA r :
                [bm |-> r.bm,
                 res |-> IF r.res = "Panic" THEN "Panic" ELSE "Success"]))

(***************************************************************************)
(* arch/mem/page_tables : entries, tables and the self-referencing window  *)
(*                                                                         *)
(* Physical memory that holds page tables is pm: frame number -> index ->  *)
(* entry, with the zero entries left out.  A frame outside DOMAIN pm holds *)
(* data: a table entry read from it has an arbitrary value g.  Every table *)
(* access of the code goes through a virtual address of the window, which  *)
(* the processor translates by walking the tables from CR3.                *)
(***************************************************************************)
\* value of PTEntry::new(): all bits clear
ZeroEntry ==
    [present |-> FALSE, writable |-> FALSE, user |-> FALSE, nx |-> FALSE,
     addr |-> 0]

\* set_present(true), set_addr, set_writable, set_user, set_no_execute on an
\* entry; the address field keeps the frame number (bits 12 to 51)
MakeEntry(frame_addr, is_user, is_writable, is_no_exec) ==
    [present |-> TRUE, writable |-> is_writable, user |-> is_user,
     nx |-> is_no_exec, addr |-> frame_addr[1]]

get_addr(e) == <<e.addr, 0>>

\* physical frame of the boot PML4 (the value of CR3), inside the kernel image
BootPML4 == 1
BootPDP == 2
BootPD == 3
BootPT == 4

\* index that marks a frame whose unwritten words are not known to be zero
JUNK == -1

PRead(pm, frame, idx, g) ==
    IF frame \in DOMAIN pm
    THEN IF idx \in DOMAIN pm[frame] THEN pm[frame][idx]
         ELSE IF JUNK \in DOMAIN pm[frame] THEN g ELSE ZeroEntry
    ELSE g

PWrite(pm, frame, idx, e) ==
    LET old == IF frame \in DOMAIN pm THEN pm[frame] ELSE (JUNK :> ZeroEntry)
        new == IF e = ZeroEntry /\ JUNK \notin DOMAIN old
               THEN [i \in (DOMAIN old) \ {idx} |-> old[i]]
               ELSE [i \in (DOMAIN old) \cup {idx} |->
                        IF i = idx THEN e ELSE old[i]]
    IN  [f \in (DOMAIN pm) \cup {frame} |-> IF f = frame THEN new ELSE pm[f]]

\* every entry of the frame reset to PTEntry::new()
PZero(pm, frame) ==
    [f \in (DOMAIN pm) \cup {frame} |-> IF f = frame THEN << >> ELSE pm[f]]

PT_get_idx(w) == w[1] % NUM_ENTRIES
PD_get_idx(w) == (w[1] \div NUM_ENTRIES) % NUM_ENTRIES
PDP_get_idx(w) == (w[1] \div (NUM_ENTRIES * NUM_ENTRIES)) % NUM_ENTRIES
\* bits 39 to 63 of an address as a signed number: the part of it held in the
\* page number, and for the addresses beyond the reach of a page number a
\* third element that counts in units of one top-level entry
TopIdx(w) ==
    (IF Len(w) = 3 THEN w[3] ELSE 0)
        + w[1] \div (NUM_ENTRIES * NUM_ENTRIES * NUM_ENTRIES)

PML4_get_idx(w) == TopIdx(w) % NUM_ENTRIES

\* start addresses of the tables inside the window (SIGN_EXTEND included)
PT_START_ADDR ==
    W((SELF_ENTRY_IDX - NUM_ENTRIES) * NUM_ENTRIES * NUM_ENTRIES * NUM_ENTRIES, 0)
PD_START_ADDR ==
    W(PT_START_ADDR[1] + SELF_ENTRY_IDX * NUM_ENTRIES * NUM_ENTRIES, 0)
PDP_START_ADDR == W(PD_START_ADDR[1] + SELF_ENTRY_IDX * NUM_ENTRIES, 0)
PML4_START_ADDR == W(PDP_START_ADDR[1] + SELF_ENTRY_IDX, 0)

PAGE_TABLES_VM_START == PT_START_ADDR
PAGE_TABLES_VM_END == W(PML4_START_ADDR[1], PAGE_SIZE - 1)

\* a canonical test that accepts every address
is_canonical_any(w) == TRUE

\* addr <= 0x00007FFFFFFFFFFF || addr >= 0xFFFF800000000000: bits 47 to 63
\* all equal, that is the signed top-level index lies in -256 .. 255
is_canonical(w) ==
    TopIdx(w) >= -(NUM_ENTRIES \div 2) /\ TopIdx(w) < NUM_ENTRIES \div 2

\* the translation the processor performs for an access to page w[1]:
\* four levels from CR3; res is "Ok" with the frame reached, or "Fault"
Walk(pm, w, g) ==
    Bind(PRead(pm, BootPML4, PML4_get_idx(w), g), LAMBDA e1 :
    Bind(IF e1.present THEN PRead(pm, e1.addr, PDP_get_idx(w), g)
         ELSE ZeroEntry, LAMBDA e2 :
    Bind(IF e2.present THEN PRead(pm, e2.addr, PD_get_idx(w), g)
         ELSE ZeroEntry, LAMBDA e3 :
    Bind(IF e3.present THEN PRead(pm, e3.addr, PT_get_idx(w), g)
         ELSE ZeroEntry, LAMBDA e4 :
        IF e4.present THEN [res |-> "Ok", frame |-> e4.addr]
        ELSE [res |-> "Fault", frame |-> 0]))))

\* virtual addresses of the tables that translate page_addr
pml4_addr_of(page_addr) == PML4_START_ADDR
pdp_addr_of(page_addr) ==
    W(PDP_START_ADDR[1] + PML4_get_idx(page_addr), 0)
pd_addr_of(page_addr) ==
    W(PD_START_ADDR[1] + PML4_get_idx(page_addr) * NUM_ENTRIES
        + PDP_get_idx(page_addr), 0)
pt_addr_of(page_addr) ==
    W(PT_START_ADDR[1]
        + PML4_get_idx(page_addr) * NUM_ENTRIES * NUM_ENTRIES
        + PDP_get_idx(page_addr) * NUM_ENTRIES
        + PD_get_idx(page_addr), 0)

\* make_table_if_not_present on entry idx of the table at table_addr, the
\* new table being at table_virt_addr.  st is [bm, pm]; res is "Ok", "Err"
\* (no frame) or "Fault" (a table of the window is not reachable)
make_table_if_not_present(st, table_addr, idx, table_virt_addr, is_user, is_writable, is_no_exec, g) ==
    Bind(Walk(st.pm, table_addr, g), LAMBDA t :
        IF t.res = "Fault"
        THEN [bm |-> st.bm, pm |-> st.pm, res |-> "Fault"]
        ELSE IF PRead(st.pm, t.frame, idx, g).present
        THEN [bm |-> st.bm, pm |-> st.pm, res |-> "Ok"]
        ELSE
    Bind(frame_alloc_alloc(st.bm), LAMBDA a :
        IF a.res # "Ok"
        THEN [bm |-> a.bm, pm |-> st.pm, res |-> "Err"]
        ELSE
    Bind(PWrite(st.pm, t.frame, idx,
                MakeEntry(a.addr, is_user, is_writable, is_no_exec)),
         LAMBDA pm1 :
    Bind(Walk(pm1, table_virt_addr, g), LAMBDA n :
        IF n.res = "Fault"
        THEN [bm |-> a.bm, pm |-> pm1, res |-> "Fault"]
        ELSE [bm |-> a.bm, pm |-> PZero(pm1, n.frame), res |-> "Ok"]))))

\* the three calls of make_table_if_not_present of PageTables::map
make_tables(st, page_addr, is_user, is_writable, is_no_exec, g) ==
    IF ~is_canonical(page_addr)
    THEN [bm |-> st.bm, pm |-> st.pm, res |-> "Err"]
    ELSE
    Bind(make_table_if_not_present(st, pml4_addr_of(page_addr),
            PML4_get_idx(page_addr), pdp_addr_of(page_addr),
            is_user, is_writable, is_no_exec, g), LAMBDA s1 :
        IF s1.res # "Ok" THEN s1 ELSE
    Bind(make_table_if_not_present(s1, pdp_addr_of(page_addr),
            PDP_get_idx(page_addr), pd_addr_of(page_addr),
            is_user, is_writable, is_no_exec, g), LAMBDA s2 :
        IF s2.res # "Ok" THEN s2 ELSE
        make_table_if_not_present(s2, pd_addr_of(page_addr),
            PD_get_idx(page_addr), pt_addr_of(page_addr),
            is_user, is_writable, is_no_exec, g)))

\* the entry of the page written in its page table, s3 being the result of
\* the tables
set_leaf(s3, page_addr, frame_addr, is_user, is_writable, is_no_exec, g) ==
    IF s3.res # "Ok" THEN s3 ELSE
    Bind(Walk(s3.pm, pt_addr_of(page_addr), g), LAMBDA t :
        IF t.res = "Fault"
        THEN [bm |-> s3.bm, pm |-> s3.pm, res |-> "Fault"]
        ELSE [bm |-> s3.bm,
              pm |-> PWrite(s3.pm, t.frame, PT_get_idx(page_addr),
                        MakeEntry(frame_addr, is_user, is_writable,
                                  is_no_exec)),
              res |-> "Ok"])

\* the mutant of PageTables_map: the leaf entry is left as it was
PageTables_map_no_leaf(st, page_addr, frame_addr, is_user, is_writable, is_no_exec, g) ==
    [bm |-> st.bm, pm |-> st.pm, res |-> "Ok"]

PageTables_map(st, page_addr, frame_addr, is_user, is_writable, is_no_exec, g) ==
    set_leaf(make_tables(st, page_addr, is_user, is_writable, is_no_exec, g),
             page_addr, frame_addr, is_user, is_writable, is_no_exec, g)

\* get_entry without the test of the present bit
get_entry_any(pm, p, table_addr, idx, g) ==
    IF p.res # "Ok" THEN p ELSE
    Bind(Walk(pm, table_addr, g), LAMBDA t :
        IF t.res = "Fault" THEN [res |-> "Fault", frame |-> 0, idx |-> 0]
        ELSE [res |-> "Ok", frame |-> t.frame, idx |-> idx])

\* the entry idx of the table at table_addr, once the step before gave p:
\* "Fault" when the table is not reachable, "Err" when the entry is not
\* present, else "Ok" with the place of the entry
get_entry(pm, p, table_addr, idx, g) ==
    IF p.res # "Ok" THEN p ELSE
    Bind(Walk(pm, table_addr, g), LAMBDA t :
        IF t.res = "Fault" THEN [res |-> "Fault", frame |-> 0, idx |-> 0]
        ELSE IF ~PRead(pm, t.frame, idx, g).present
        THEN [res |-> "Err", frame |-> 0, idx |-> 0]
        ELSE [res |-> "Ok", frame |-> t.frame, idx |-> idx])

\* res "Ok" with the place (frame, idx) of the leaf entry, "Err" or "Fault"
get_pt_entry_ptr(pm, page_addr, g) ==
    IF ~is_canonical(page_addr)
    THEN [res |-> "Err", frame |-> 0, idx |-> 0]
    ELSE get_entry(pm,
            get_entry(pm,
                get_entry(pm,
                    get_entry(pm, [res |-> "Ok", frame |-> 0, idx |-> 0],
                              pml4_addr_of(page_addr),
                              PML4_get_idx(page_addr), g),
                    pdp_addr_of(page_addr), PDP_get_idx(page_addr), g),
                pd_addr_of(page_addr), PD_get_idx(page_addr), g),
            pt_addr_of(page_addr), PT_get_idx(page_addr), g)

PageTables_unmap(pm, page_addr, g) ==
    Bind(get_pt_entry_ptr(pm, page_addr, g), LAMBDA p :
        IF p.res = "Ok"
        THEN [pm |-> PWrite(pm, p.frame, p.idx, ZeroEntry), res |-> "Ok"]
        ELSE [pm |-> pm, res |-> p.res])

PageTables_virt_to_phys(pm, page_addr, g) ==
    Bind(get_pt_entry_ptr(pm, page_addr, g), LAMBDA p :
        IF p.res = "Ok"
        THEN [res |-> "Ok",
              addr |-> W(PRead(pm, p.frame, p.idx, g).addr, page_addr[2])]
        ELSE [res |-> p.res, addr |-> NoAddr])

(***************************************************************************)
(* mem/vmm.rs                                                              *)
(***************************************************************************)
get_num_pages(size) == IF size < PAGE_SIZE THEN 1 ELSE size \div PAGE_SIZE

\* res "Panic" when no frame is left, else the result of PageTables::map
vmm_map(st, page_addr, is_user, is_writable, is_no_exec, g) ==
    Bind(frame_alloc_alloc(st.bm), LAMBDA a :
        IF a.res # "Ok"
        THEN [bm |-> a.bm, pm |-> st.pm, res |-> "Panic"]
        ELSE PageTables_map([bm |-> a.bm, pm |-> st.pm], page_addr, a.addr,
                            is_user, is_writable, is_no_exec, g))

\* one turn of the loop of map_range, r being the result of the turns before
map_page(r, page_addr, page_num, is_user, is_writable, is_no_exec, g) ==
    IF r.res # "Ok" THEN r
    ELSE vmm_map(r, WAdd(page_addr, page_num * PAGE_SIZE), is_user,
                 is_writable, is_no_exec, g)

\* the loop of map_range, left at the first result that is not Ok
map_pages(st, page_addr, num_pages, is_user, is_writable, is_no_exec, g) ==
    LET after[n \in 0 .. num_pages] ==
            IF n = 0 THEN [bm |-> st.bm, pm |-> st.pm, res |-> "Ok"]
            ELSE map_page(after[n - 1], page_addr, n - 1, is_user,
                          is_writable, is_no_exec, g)
    IN  after[num_pages]

map_range(st, page_addr, size, is_user, is_writable, is_no_exec, g) ==
    map_pages(st, page_addr, get_num_pages(size), is_user, is_writable,
              is_no_exec, g)

vmm_unmap(st, page_addr, g) ==
    Bind(PageTables_virt_to_phys(st.pm, page_addr, g), LAMBDA v :
        IF v.res # "Ok" THEN [bm |-> st.bm, pm |-> st.pm, res |-> v.res]
        ELSE
    Bind(frame_alloc_dealloc(st.bm, v.addr), LAMBDA d :
        IF d.res = "Panic"
        THEN [bm |-> d.bm, pm |-> st.pm, res |-> "Panic"]
        ELSE
    Bind(PageTables_unmap(st.pm, page_addr, g), LAMBDA u :
        [bm |-> d.bm, pm |-> u.pm, res |-> u.res])))

\* one turn of the loop of unmap_range
unmap_page(r, page_addr, page_num, g) ==
    IF r.res # "Ok" THEN r
    ELSE vmm_unmap(r, WAdd(page_addr, page_num * PAGE_SIZE), g)

unmap_pages(st, page_addr, num_pages, g) ==
    LET after[n \in 0 .. num_pages] ==
            IF n = 0 THEN [bm |-> st.bm, pm |-> st.pm, res |-> "Ok"]
            ELSE unmap_page(after[n - 1], page_addr, n - 1, g)
    IN  after[num_pages]

unmap_range(st, page_addr, size, g) ==
    unmap_pages(st, page_addr, get_num_pages(size), g)

lazy_map(st, page_addr, frame_addr, is_user, is_writable, is_no_exec, g) ==
    PageTables_map(st, page_addr, frame_addr, is_user, is_writable,
                   is_no_exec, g)

\* alloc_frame answers Ok(frame_addr), InvalidAddr or Err (or panics); the
\* match of identity_map maps the frame on the answer Success
identity_map(st, frame_addr, is_user, is_writable, is_no_exec, g) ==
    Bind(frame_alloc_alloc_frame(st.bm, frame_addr), LAMBDA a :
        CASE a.res = "Success" ->
                lazy_map([bm |-> a.bm, pm |-> st.pm], frame_addr, frame_addr,
                         is_user, is_writable, is_no_exec, g)
          [] a.res = "Panic" -> [bm |-> a.bm, pm |-> st.pm, res |-> "Panic"]
          [] OTHER -> [bm |-> a.bm, pm |-> st.pm, res |-> "Err"])

\* one turn of the loop of identity_map_range
identity_map_page(r, frame_addr, page_num, is_user, is_writable, is_no_exec, g) ==
    IF r.res # "Ok" THEN r
    ELSE identity_map(r, WAdd(frame_addr, page_num * PAGE_SIZE), is_user,
                      is_writable, is_no_exec, g)

\* the loop is left at the first result that is not Ok
identity_map_range(st, frame_addr, size, is_user, is_writable, is_no_exec, g) ==
    LET after[n \in 0 .. get_num_pages(size)] ==
            IF n = 0 THEN [bm |-> st.bm, pm |-> st.pm, res |-> "Ok"]
            ELSE identity_map_page(after[n - 1], frame_addr, n - 1, is_user,
                                   is_writable, is_no_exec, g)
    IN  after[get_num_pages(size)]

(***************************************************************************)
(* mem/map.rs and mem/page_fault.rs                                        *)
(***************************************************************************)
\* 0x100000000
KERNEL_HEAP_METADATA_END_ADDR == W(1048576, 0)
PAGE_TABLES_START_ADDR == PAGE_TABLES_VM_START
PAGE_TABLES_END_ADDR == PAGE_TABLES_VM_END

\* the address test of the handler
Mappable(page_addr) ==
    \/ WLt(page_addr, KERNEL_HEAP_METADATA_END_ADDR)
    \/ /\ WLe(PAGE_TABLES_START_ADDR, page_addr)
       /\ WLt(page_addr, PAGE_TABLES_END_ADDR)

\* the result of vmm::map as the result of the handler
page_fault_mapped(r) ==
    [bm |-> r.bm, pm |-> r.pm,
     res |-> IF r.res = "Ok" THEN "Resolved" ELSE r.res]

\* the mutant of page_fault: the user test is dropped
page_fault_user_ok(st, page_addr, present, user, no_exec, g) ==
    IF present \/ no_exec
    THEN [bm |-> st.bm, pm |-> st.pm, res |-> "Fatal"]
    ELSE IF Mappable(page_addr)
    THEN page_fault_mapped(vmm_map(st, page_addr, user, TRUE, FALSE, g))
    ELSE [bm |-> st.bm, pm |-> st.pm, res |-> "Fatal"]

\* the mutant of page_fault: every address is taken as mappable
page_fault_any_addr(st, page_addr, present, user, no_exec, g) ==
    IF present \/ no_exec \/ user
    THEN [bm |-> st.bm, pm |-> st.pm, res |-> "Fatal"]
    ELSE page_fault_mapped(vmm_map(st, page_addr, user, TRUE, FALSE, g))

\* res "Resolved" (the handler returns) or a fatal stop: "Fatal" for the
\* panics of the handler itself, "Panic" / "Err" / "Fault" from vmm::map
page_fault(st, page_addr, present, user, no_exec, g) ==
    IF present \/ no_exec \/ user
    THEN [bm |-> st.bm, pm |-> st.pm, res |-> "Fatal"]
    ELSE IF Mappable(page_addr)
    THEN page_fault_mapped(vmm_map(st, page_addr, user, TRUE, FALSE, g))
    ELSE [bm |-> st.bm, pm |-> st.pm, res |-> "Fatal"]

(***************************************************************************)
(* Boot state                                                              *)
(***************************************************************************)
\* the usable physical region handed to frame_alloc::init
UsableRegion ==
    Region_new_sized(W(KernelEndPage, 0), UsablePages * FRAME_SIZE)

BootBitMap == BitMap_new(UsableRegion)

FrameAddr(n) == WAdd(BootBitMap.frames_start, n * FRAME_SIZE)

\* map::KERNEL_END_ADDR as set by mem::init
KERNEL_END_ADDR == get_mappable_region(BootBitMap).addr

\* page tables after vmm::init: the self-referencing entry, and the pages
\* below KERNEL_END_ADDR identity mapped (kernel, writable, executable)
BootTables ==
    LET tbl(f) == MakeEntry(W(f, 0), FALSE, TRUE, FALSE)
    IN  (BootPML4 :> (0 :> tbl(BootPDP) @@ SELF_ENTRY_IDX :> tbl(BootPML4)))
        @@ (BootPDP :> (0 :> tbl(BootPD)))
        @@ (BootPD :> (0 :> tbl(BootPT)))
        @@ (BootPT :> [i \in 0 .. (KERNEL_END_ADDR[1] - 1) |-> tbl(i)])

(***************************************************************************)
(* Specification of the frame allocator alone                              *)
(***************************************************************************)
\* frame n of the managed range is not marked used
IsFree(b, n) ==
    /\ n >= 0
    /\ n < b.frames_count
    /\ (n \div NUM_BITS_PER_FIELD) \in DOMAIN b.map =>
          is_clear(b.map[n \div NUM_BITS_PER_FIELD], n % NUM_BITS_PER_FIELD)

\* addresses offered to alloc_frame and dealloc: a frame of each bitmap
\* word, an address inside a frame, and addresses around the managed range
FrameInputs ==
    {FrameAddr(0), WAdd(FrameAddr(1), 8), FrameAddr(64),
     FrameAddr(BootBitMap.frames_count),
     WAdd(BootBitMap.frames_start, -FRAME_SIZE)}

\* the frame addresses of a set that lie outside the frame of addr
DropFrame(s, b, addr) ==
    {a \in s : addr_to_frame(b, a) # addr_to_frame(b, addr)}

InitFrame ==
    /\ bm = BootBitMap
    /\ ptmem = BootTables
    /\ heap = << >>
    /\ halted = "no"
    /\ op = [name |-> "init", res |-> "Ok", addr |-> NoAddr, before |-> {},
             free |-> FALSE]
    /\ handed = {}
    /\ live = << >>
    /\ mapped = << >>
    /\ cpu = << >>

FrameAlloc ==
    /\ halted = "no"
    /\ \E r \in {frame_alloc_alloc(bm)} :
           /\ bm' = r.bm
           /\ op' = [name |-> "alloc", res |-> r.res, addr |-> r.addr,
                     before |-> handed, free |-> FALSE]
           /\ handed' = IF r.res = "Ok" THEN handed \cup {r.addr} ELSE handed
    /\ UNCHANGED <<ptmem, heap, halted, live, mapped, cpu>>

FrameAllocFrame ==
    /\ halted = "no"
    /\ \E a \in FrameInputs :
         \E r \in {frame_alloc_alloc_frame(bm, a)} :
             /\ bm' = r.bm
             /\ op' = [name |-> "alloc_frame", res |-> r.res, addr |-> a,
                       before |-> {},
                       free |-> IsFree(bm, addr_to_frame(bm, a))]
             /\ halted' = IF r.res = "Panic" THEN "frame number" ELSE halted
    /\ UNCHANGED <<ptmem, heap, handed, live, mapped, cpu>>

FrameDealloc ==
    /\ halted = "no"
    /\ \E a \in FrameInputs :
         \E r \in {frame_alloc_dealloc(bm, a)} :
             /\ bm' = r.bm
             /\ op' = [name |-> "dealloc", res |-> r.res, addr |-> a,
                       before |-> {},
                       free |-> IsFree(bm, addr_to_frame(bm, a))]
             /\ handed' = IF r.res = "Success" THEN DropFrame(handed, bm, a)
                           ELSE handed
             /\ halted' = IF r.res = "Panic" THEN "frame number" ELSE halted
    /\ UNCHANGED <<ptmem, heap, live, mapped, cpu>>

\* BitMap::purge on the bitmap of the allocator: no frame is handed out
FramePurge ==
    /\ halted = "no"
    /\ bm' = BitMap_purge(bm)
    /\ op' = [name |-> "purge", res |-> "Ok", addr |-> NoAddr,
              before |-> handed, free |-> FALSE]
    /\ handed' = {}
    /\ UNCHANGED <<ptmem, heap, halted, live, mapped, cpu>>

NextFrame == FrameAlloc \/ FrameAllocFrame \/ FrameDealloc \/ FramePurge

SpecFrame == InitFrame /\ [][NextFrame]_vars

\* C3: alloc() never returns a frame address that an earlier alloc() returned
\* and that has not been deallocated since, so the frames currently handed
\* out are pairwise distinct (each alloc() adds one new member to the set).
C3_NoFrameTwice ==
    (op.name = "alloc" /\ op.res = "Ok") =>
        /\ op.addr \notin op.before
        /\ Cardinality(handed) = Cardinality(op.before) + 1

\* frame 0 was deallocated and handed out again while other frames are out
C3_Witness ==
    /\ op.name = "alloc"
    /\ op.res = "Ok"
    /\ op.addr = FrameAddr(0)
    /\ Cardinality(op.before) >= 2

\* C21: alloc() always returns the lowest-addressed free frame of the
\* managed range: the first alloc() after init returns the first frame, and
\* after dealloc of a frame lower than every other free frame the next
\* alloc() returns that address.
C21_LowestFreeFrame ==
    [][(op'.name = "alloc" /\ op'.res = "Ok" /\ bm' # bm) =>
          \E n \in 0 .. (bm.frames_count - 1) :
             /\ IsFree(bm, n)
             /\ \A k \in 0 .. (n - 1) : ~IsFree(bm, k)
             /\ op'.addr = WAdd(bm.frames_start, n * FRAME_SIZE)]_vars

\* the search had moved on to the second word of the bitmap, the first
\* frame was deallocated, and alloc() has returned it
C21_Witness ==
    /\ op.name = "alloc"
    /\ op.res = "Ok"
    /\ op.addr = FrameAddr(0)
    /\ FrameAddr(NUM_BITS_PER_FIELD) \in op.before
    /\ bm.first_free = 0

\* C23: dealloc of an in-range frame that is not allocated changes no bit
\* of the bitmap, and dealloc of any frame changes no bit other than the
\* bit of that frame, so the frames of other owners stay allocated.
C23_DeallocOwnBitOnly ==
    [][op'.name = "dealloc" =>
          /\ DOMAIN bm'.map = DOMAIN bm.map
          /\ \A i \in DOMAIN bm.map, c \in USIZE_MAX :
                (i * NUM_BITS_PER_FIELD) + c # addr_to_frame(bm, op'.addr) =>
                    (is_clear(bm'.map[i], c) <=> is_clear(bm.map[i], c))
          /\ op'.free => bm'.map = bm.map
          /\ handed' \subseteq handed]_vars

\* a frame that is free was deallocated while other frames are allocated
C23_Witness ==
    /\ op.name = "dealloc"
    /\ op.res = "Success"
    /\ op.free
    /\ op.addr = FrameAddr(NUM_BITS_PER_FIELD)
    /\ Cardinality(handed) >= 2
    /\ Cardinality(bm.map[0]) >= 2

\* the address lies in the managed range of frames
InFrames(b, addr) ==
    /\ WLe(b.frames_start, addr)
    /\ WLt(addr, WAdd(b.frames_start, b.frames_count * FRAME_SIZE))

\* C24: alloc_frame(physical_addr) and dealloc(physical_addr) return
\* InvalidAddr, without touching the bitmap and without halting, for every
\* address outside [frames_start, frames_start + frames_count * FRAME_SIZE);
\* for every address inside they complete with an ordinary result and
\* never halt.
C24_InvalidAddrOutside ==
    [][op'.name \in {"alloc_frame", "dealloc"} =>
          /\ halted' = "no"
          /\ ~InFrames(bm, op'.addr) =>
                (op'.res = "InvalidAddr" /\ bm' = bm)
          /\ InFrames(bm, op'.addr) => op'.res \in {"Ok", "Err", "Success"}]_vars

\* C32: after any sequence of alloc, alloc_frame_num, dealloc and purge no
\* word of the bitmap with an index below first_free holds a free bit, so a
\* scan from first_free misses no free frame.
C32_NoFreeBelowCursor ==
    /\ bm.first_free >= 0
    /\ \A i \in DOMAIN bm.map : i < bm.first_free => ~has_free(bm.map[i])

\* the cursor had passed the full first word and dealloc of frame 0 brought
\* it back while a frame of the second word is handed out
C32_Witness ==
    /\ op.name = "dealloc"
    /\ op.res = "Success"
    /\ op.addr = FrameAddr(0)
    /\ op.free = FALSE
    /\ FrameAddr(NUM_BITS_PER_FIELD) \in handed
    /\ bm.first_free = 0

(***************************************************************************)
(* Specification of frame_alloc::init over several usable regions,         *)
(* followed by alloc()                                                     *)
(***************************************************************************)
\* pages of the usable regions: 1 MiB, and a region of little more than one
\* word of the bitmap
ScenarioPages == 256
SmallPages == 66

\* get_usable_region: from the end of the kernel, which need not be at a
\* frame boundary, to the end of the memory
InitRegions ==
    {Region_new_sized(W(KernelEndPage, off), n * FRAME_SIZE) :
        off \in {0, 8}, n \in {2, SmallPages, ScenarioPages}}

InitBoot ==
    /\ \E r \in InitRegions :
          /\ bm = BitMap_new(r)
          /\ op = [name |-> "init", res |-> "Ok", addr |-> NoAddr,
                   region |-> r]
    /\ ptmem = << >>
    /\ heap = << >>
    /\ halted = "no"
    /\ handed = {}
    /\ live = << >>
    /\ mapped = << >>
    /\ cpu = << >>

BootAlloc ==
    /\ halted = "no"
    /\ op.res = "Ok"
    /\ \E r \in {frame_alloc_alloc(bm)} :
           /\ bm' = r.bm
           /\ op' = [name |-> "alloc", res |-> r.res, addr |-> r.addr,
                     region |-> op.region]
           /\ handed' = IF r.res = "Ok" THEN handed \cup {r.addr} ELSE handed
    /\ UNCHANGED <<ptmem, heap, halted, live, mapped, cpu>>

\* dealloc of the frame alloc() returned last
BootDealloc ==
    /\ halted = "no"
    /\ op.name = "alloc"
    /\ op.res = "Ok"
    /\ \E r \in {frame_alloc_dealloc(bm, op.addr)} :
           /\ bm' = r.bm
           /\ op' = [name |-> "dealloc", res |-> "Ok", addr |-> op.addr,
                     region |-> op.region]
           /\ handed' = handed \ {op.addr}
           /\ halted' = IF r.res = "Panic" THEN "panic" ELSE halted
    /\ UNCHANGED <<ptmem, heap, live, mapped, cpu>>

NextBoot == BootAlloc \/ BootDealloc

SpecBoot == InitBoot /\ [][NextBoot]_vars

\* C22: starting from a freshly initialised bitmap, alloc() succeeds once
\* for every frame of the usable region that is not occupied by the bitmap
\* itself (frames_count times), and returns Full only when none of those
\* frames is free.
C22_FullOnlyWhenNoneFree ==
    (op.name = "alloc" /\ op.res = "Full") =>
        /\ Cardinality(handed) = bm.frames_count
        /\ \A n \in 0 .. (bm.frames_count - 1) : ~IsFree(bm, n)

\* C25: after init over any usable region the bitmap is stored at a 4 KiB
\* aligned address at the start of that region, its storage lies below the
\* first allocatable frame, every frame address is 4 KiB aligned, and every
\* managed frame is free.
C25_InitLayout ==
    op.name = "init" =>
        /\ bm.map_addr[2] % ALIGNMENT = 0
        /\ WLe(op.region.addr, bm.map_addr)
        /\ WLt(bm.map_addr, WAdd(op.region.addr, ALIGNMENT))
        /\ WLe(WAdd(bm.map_addr, MapLen(bm) * (NUM_BITS_PER_FIELD \div 8)),
               bm.frames_start)
        /\ bm.frames_start[2] % ALIGNMENT = 0
        /\ FRAME_SIZE % ALIGNMENT = 0
        /\ WLe(WAdd(bm.frames_start, bm.frames_count * FRAME_SIZE),
               end_addr(op.region))
        /\ \A n \in 0 .. (bm.frames_count - 1) : IsFree(bm, n)

(***************************************************************************)
(* Specification of the page tables: map, unmap and virt_to_phys           *)
(***************************************************************************)
\* what a table entry read from a data frame may hold
Garbage == {ZeroEntry, MakeEntry(W(BootPML4, 0), FALSE, TRUE, FALSE)}

\* a page lies in the window of the self-referencing entry
IsWindow(w) == PML4_get_idx(w) = SELF_ENTRY_IDX

\* page addresses offered to the operations: heap pages (one with a page
\* offset), an identity-mapped page, and pages of the window (the PML4
\* itself, the page table of the first heap page)
PTPages ==
    {KERNEL_HEAP_METADATA_END_ADDR,
     WAdd(KERNEL_HEAP_METADATA_END_ADDR, PAGE_SIZE + 8),
     W(KernelEndPage - 1, 0),
     PML4_START_ADDR,
     pt_addr_of(KERNEL_HEAP_METADATA_END_ADDR)}

PTFrames == {FrameAddr(100), FrameAddr(101)}

\* page offsets at which a translation is observed
Offsets == {0, 8, PAGE_SIZE - 1}

InitPT ==
    /\ bm = BootBitMap
    /\ ptmem = BootTables
    /\ heap = << >>
    /\ halted = "no"
    /\ op = [name |-> "init", res |-> "Ok", addr |-> NoAddr]
    /\ handed = {}
    /\ live = << >>
    /\ mapped = [frame_of |-> << >>, window |-> FALSE]
    /\ cpu = << >>

\* frame_of without the page of w
Unmapped(m, w) == [p \in (DOMAIN m) \ {PageOf(w)} |-> m[p]]

PTMap ==
    /\ halted = "no"
    /\ \E a \in PTPages, f \in PTFrames, g \in Garbage :
         \E r \in {PageTables_map([bm |-> bm, pm |-> ptmem], a, f,
                                  FALSE, TRUE, FALSE, g)} :
             /\ IsWindow(a) => ~mapped.window
             /\ bm' = r.bm
             /\ ptmem' = r.pm
             /\ op' = [name |-> "map", res |-> r.res, addr |-> a]
             /\ halted' = IF r.res = "Fault" THEN "page table access"
                          ELSE halted
             /\ mapped' =
                  [frame_of |->
                        IF r.res = "Ok"
                        THEN (PageOf(a) :> f) @@ mapped.frame_of
                        ELSE mapped.frame_of,
                   window |-> mapped.window \/ IsWindow(a)]
    /\ UNCHANGED <<heap, handed, live, cpu>>

PTUnmap ==
    /\ halted = "no"
    /\ \E a \in PTPages, g \in Garbage :
         \E r \in {PageTables_unmap(ptmem, a, g)} :
             /\ IsWindow(a) => ~mapped.window
             /\ ptmem' = r.pm
             /\ op' = [name |-> "unmap", res |-> r.res, addr |-> a]
             /\ halted' = IF r.res = "Fault" THEN "page table access"
                          ELSE halted
             /\ mapped' =
                  [frame_of |->
                        IF r.res = "Ok" THEN Unmapped(mapped.frame_of, a)
                        ELSE mapped.frame_of,
                   window |-> mapped.window \/ IsWindow(a)]
    /\ UNCHANGED <<bm, heap, handed, live, cpu>>

PTVirtToPhys ==
    /\ halted = "no"
    /\ \E a \in PTPages, g \in Garbage :
         \E r \in {PageTables_virt_to_phys(ptmem, a, g)} :
             op' = [name |-> "virt_to_phys", res |-> r.res, addr |-> r.addr]
    /\ UNCHANGED <<bm, ptmem, heap, halted, handed, live, mapped, cpu>>

NextPT == PTMap \/ PTUnmap \/ PTVirtToPhys

SpecPT == InitPT /\ [][NextPT]_vars

\* every mapped page translates to its frame at every offset, and the page
\* just unmapped does not translate
Translates ==
    /\ \A p \in DOMAIN mapped.frame_of, off \in Offsets, g \in Garbage :
         PageTables_virt_to_phys(ptmem, W(p[1], off), g)
            = [res |-> "Ok", addr |-> W(mapped.frame_of[p][1], off)]
    /\ (op.name = "unmap" /\ op.res = "Ok") =>
         \A g \in Garbage :
            PageTables_virt_to_phys(ptmem, op.addr, g).res = "Err"

\* C4 as stated: for every page a, once map(a, f) returned Ok,
\* virt_to_phys(a) is f with the offset of a, across any map / unmap of other
\* pages, until unmap(a), after which virt_to_phys(a) is Err.
C4_AnyPage == Translates

\* C4 amended: the same, as long as no map / unmap has been given a page of
\* the window of the self-referencing PML4 entry (top-level index 511).
C4_OutsideWindow == ~mapped.window => Translates

\* two pages are mapped, a third one was just unmapped, no window page used
C4_Witness ==
    /\ ~mapped.window
    /\ Cardinality(DOMAIN mapped.frame_of) >= 2
    /\ op.name = "unmap"
    /\ op.res = "Ok"

(***************************************************************************)
(* Specification of the address checks of the page tables: map, unmap and  *)
(* virt_to_phys, and vmm::map / vmm::unmap above them, given canonical and *)
(* non-canonical addresses                                                 *)
(***************************************************************************)
\* an address whose bits 39 to 63 are top (signed), in page pg of that
\* top-level entry
WTop(top, pg, off) == <<pg, off, top>>

\* the last page of one top-level entry
LastPg == NUM_ENTRIES * NUM_ENTRIES * NUM_ENTRIES - 1

\* 0x0000800000000000, 0xFFFF7FFFFFFFFFFF, and 0x0001000000000000 (the
\* indices of the identity-mapped page 0 below bit 48 set)
NonCanonicalPages ==
    {WTop(NUM_ENTRIES \div 2, 0, 0),
     WTop(-(NUM_ENTRIES \div 2) - 1, LastPg, PAGE_SIZE - 1),
     WTop(NUM_ENTRIES, 0, 0)}

\* 0x00007FFFFFFFFFFF and 0xFFFF800000000000, the ends of the two halves
HalfEnds ==
    {WTop(NUM_ENTRIES \div 2 - 1, LastPg, PAGE_SIZE - 1),
     WTop(-(NUM_ENTRIES \div 2), 0, 0)}

\* canonical pages given to the operations: two heap pages of one page
\* table (one with an offset) and the first page of the high half
CanonicalPages ==
    {KERNEL_HEAP_METADATA_END_ADDR,
     WAdd(KERNEL_HEAP_METADATA_END_ADDR, PAGE_SIZE + 8),
     WTop(-(NUM_ENTRIES \div 2), 0, 0)}

\* number of frames alloc() hands out in a run
MaxHanded == 3

\* number of frames vmm::map holds at a time
MaxMapped == 2

InitLookup ==
    /\ bm = BootBitMap
    /\ ptmem = BootTables
    /\ heap = << >>
    /\ halted = "no"
    /\ op = [name |-> "init", res |-> "Ok", addr |-> NoAddr, out |-> NoAddr]
    /\ handed = {}
    /\ live = << >>
    /\ mapped = [frame_of |-> << >>, window |-> FALSE]
    /\ cpu = << >>

LookupHalt(res) == IF res \in {"Fault", "Panic"} THEN "page tables" ELSE halted

\* vmm::map(a, false, true, false): alloc(), then PageTables::map of the
\* frame; handed keeps the frames alloc() gave it, out is the last of them
LookupVmmMap ==
    /\ halted = "no"
    /\ Cardinality(handed) < MaxMapped
    /\ \E a \in CanonicalPages \cup NonCanonicalPages, g \in Garbage :
         \E r \in {vmm_map([bm |-> bm, pm |-> ptmem], a, FALSE, TRUE, FALSE,
                           g)} :
             /\ bm' = r.bm
             /\ ptmem' = r.pm
             /\ op' = [name |-> "vmm_map", res |-> r.res, addr |-> a,
                       out |-> frame_alloc_alloc(bm).addr]
             /\ handed' = handed \cup {frame_alloc_alloc(bm).addr}
             /\ halted' = LookupHalt(r.res)
    /\ UNCHANGED <<heap, live, mapped, cpu>>

\* PageTables::unmap(a)
LookupUnmap ==
    /\ halted = "no"
    /\ \E a \in CanonicalPages \cup NonCanonicalPages, g \in Garbage :
         \E r \in {PageTables_unmap(ptmem, a, g)} :
             /\ ptmem' = r.pm
             /\ op' = [name |-> "unmap", res |-> r.res, addr |-> a,
                       out |-> NoAddr]
             /\ halted' = LookupHalt(r.res)
    /\ UNCHANGED <<bm, heap, handed, live, mapped, cpu>>

\* vmm::unmap(a)
LookupVmmUnmap ==
    /\ halted = "no"
    /\ \E a \in CanonicalPages \cup NonCanonicalPages, g \in Garbage :
         \E r \in {vmm_unmap([bm |-> bm, pm |-> ptmem], a, g)} :
             /\ bm' = r.bm
             /\ ptmem' = r.pm
             /\ op' = [name |-> "vmm_unmap", res |-> r.res, addr |-> a,
                       out |-> PageTables_virt_to_phys(ptmem, a, g).addr]
             /\ handed' =
                  IF PageTables_virt_to_phys(ptmem, a, g).res = "Ok"
                  THEN handed
                        \ {PageOf(PageTables_virt_to_phys(ptmem, a, g).addr)}
                  ELSE handed
             /\ halted' = LookupHalt(r.res)
    /\ UNCHANGED <<heap, live, mapped, cpu>>

\* PageTables::virt_to_phys(a)
LookupVirtToPhys ==
    /\ halted = "no"
    /\ \E a \in CanonicalPages \cup NonCanonicalPages, g \in Garbage :
         \E r \in {PageTables_virt_to_phys(ptmem, a, g)} :
             op' = [name |-> "virt_to_phys", res |-> r.res, addr |-> a,
                    out |-> r.addr]
    /\ UNCHANGED <<bm, ptmem, heap, halted, handed, live, mapped, cpu>>

NextLookup ==
    \/ LookupVmmMap
    \/ LookupUnmap
    \/ LookupVmmUnmap
    \/ LookupVirtToPhys

SpecLookup == InitLookup /\ [][NextLookup]_vars

\* C26: map, unmap and virt_to_phys return Err for every non-canonical
\* address (0x0000800000000000 <= addr < 0xFFFF800000000000) and then create
\* no table, write no entry and allocate no frame (the bitmap is as alloc()
\* of vmm::map left it before it called map); the canonical check rejects no
\* address of the two canonical halves: map of such an address returns Ok.
C26_NonCanonicalErr ==
    [][/\ (op'.name \in {"unmap", "virt_to_phys"}
              /\ op'.addr \in NonCanonicalPages)
          => (op'.res = "Err" /\ ptmem' = ptmem /\ bm' = bm)
       /\ (op'.name = "vmm_map" /\ op'.addr \in NonCanonicalPages)
          => (op'.res = "Err" /\ ptmem' = ptmem
              /\ bm' = frame_alloc_alloc(bm).bm)
       /\ \A a \in CanonicalPages \cup HalfEnds : is_canonical(a)
       /\ (op'.name = "vmm_map" /\ op'.addr \in CanonicalPages)
          => op'.res = "Ok"]_vars

\* map has just refused 0x0001000000000000, whose indices are those of the
\* identity-mapped page 0, while the end of the high half is mapped
C26_Witness ==
    /\ op.name = "vmm_map"
    /\ op.res = "Err"
    /\ op.addr = WTop(NUM_ENTRIES, 0, 0)
    /\ \A g \in Garbage :
         PageTables_virt_to_phys(ptmem, WTop(-(NUM_ENTRIES \div 2), 0, 0),
                                 g).res = "Ok"

\* the four entries the processor goes through for page w, from the PML4 of
\* CR3 down: place (frame, idx) and value, a level below an entry that is
\* not present being ZeroEntry at place (0, 0)
Levels(pm, w) ==
    LET idx == <<PML4_get_idx(w), PDP_get_idx(w), PD_get_idx(w),
                 PT_get_idx(w)>>
        lv[n \in 1 .. 4] ==
            IF n = 1
            THEN [frame |-> BootPML4, idx |-> idx[1],
                  e |-> PRead(pm, BootPML4, idx[1], ZeroEntry)]
            ELSE IF lv[n - 1].e.present
            THEN [frame |-> lv[n - 1].e.addr, idx |-> idx[n],
                  e |-> PRead(pm, lv[n - 1].e.addr, idx[n], ZeroEntry)]
            ELSE [frame |-> 0, idx |-> 0, e |-> ZeroEntry]
    IN  lv

PresentAll(pm, w) == \A n \in 1 .. 4 : Levels(pm, w)[n].e.present

\* every entry of pm2 is the entry of pm1, but for the one at (frame, idx)
SameBut(pm1, pm2, frame, idx) ==
    /\ DOMAIN pm1 = DOMAIN pm2
    /\ \A f \in DOMAIN pm1 : \A i \in (DOMAIN pm1[f]) \cup (DOMAIN pm2[f]) :
         (f # frame \/ i # idx)
            => PRead(pm1, f, i, ZeroEntry) = PRead(pm2, f, i, ZeroEntry)

\* C27: unmap, virt_to_phys and vmm::unmap of a page whose entry is not
\* present at one of the four levels return Err, and then no page-table
\* entry is changed and the frame bitmap is unchanged; unmap of a mapped page
\* returns Ok and clears the leaf entry of that page, every other entry,
\* those of its parent tables included, staying as it was.
C27_NotPresentErr ==
    [][/\ (op'.name \in {"unmap", "virt_to_phys", "vmm_unmap"}
              /\ ~PresentAll(ptmem, op'.addr))
          => (op'.res = "Err" /\ ptmem' = ptmem /\ bm' = bm)
       /\ (op'.name \in {"unmap", "vmm_unmap"}
              /\ op'.addr \in CanonicalPages
              /\ PresentAll(ptmem, op'.addr))
          => /\ op'.res = "Ok"
             /\ ~PresentAll(ptmem', op'.addr)
             /\ \A n \in 1 .. 3 : Levels(ptmem', op'.addr)[n].e.present
             /\ SameBut(ptmem, ptmem', Levels(ptmem, op'.addr)[4].frame,
                        Levels(ptmem, op'.addr)[4].idx)]_vars

\* vmm::unmap has just refused the first heap page, which is not mapped in
\* a page table that holds the mapping of the page after it
C27_Witness ==
    /\ op.name = "vmm_unmap"
    /\ op.res = "Err"
    /\ op.addr = KERNEL_HEAP_METADATA_END_ADDR
    /\ \A n \in 1 .. 3 : Levels(ptmem, op.addr)[n].e.present
    /\ PresentAll(ptmem, WAdd(KERNEL_HEAP_METADATA_END_ADDR, PAGE_SIZE + 8))
    /\ handed # {}

(***************************************************************************)
(* Specification of the page-fault handler                                 *)
(***************************************************************************)
\* frames left free in the second start state
FreeLeft == 2

\* the fresh bitmap b after n calls of alloc(): the first n frames in use
AfterAllocs(b, n) ==
    [b EXCEPT
        !.map = [i \in DOMAIN b.map |->
                    {c \in USIZE_MAX : i * NUM_BITS_PER_FIELD + c < n}],
        !.first_free = IF n = 0 THEN 0 ELSE (n - 1) \div NUM_BITS_PER_FIELD]

\* number of frames the bitmap can still hand out
FreeCount(b) ==
    Cardinality({x \in (DOMAIN b.map) \X USIZE_MAX : is_clear(b.map[x[1]], x[2])})

\* frames vmm::map takes for page_addr: one for the page and one for each
\* table missing on its path
Needed(pm, page_addr, g) ==
    LET rd(t, i) == PRead(pm, Walk(pm, t, g).frame, i, g).present
    IN  IF ~rd(pml4_addr_of(page_addr), PML4_get_idx(page_addr)) THEN 4
        ELSE IF ~rd(pdp_addr_of(page_addr), PDP_get_idx(page_addr)) THEN 3
        ELSE IF ~rd(pd_addr_of(page_addr), PD_get_idx(page_addr)) THEN 2
        ELSE 1

\* faulting pages: metadata pages (first, second, last), the first heap
\* page, an identity-mapped page, window pages (a page table, the PML4) and
\* the page below the window
PFPages ==
    {KERNEL_END_ADDR,
     WAdd(KERNEL_END_ADDR, PAGE_SIZE),
     W(KERNEL_HEAP_METADATA_END_ADDR[1] - 1, 0),
     KERNEL_HEAP_METADATA_END_ADDR,
     W(KernelEndPage - 1, 0),
     pt_addr_of(KERNEL_HEAP_METADATA_END_ADDR),
     PML4_START_ADDR,
     W(PAGE_TABLES_START_ADDR[1] - 1, 0)}

InitPF ==
    /\ bm \in {BootBitMap,
               AfterAllocs(BootBitMap, FreeCount(BootBitMap) - FreeLeft)}
    /\ ptmem = BootTables
    /\ heap = << >>
    /\ halted = "no"
    /\ op = [name |-> "init", res |-> "Ok", addr |-> NoAddr,
             present |-> FALSE, user |-> FALSE, no_exec |-> FALSE]
    /\ handed = {}
    /\ live = << >>
    /\ mapped = << >>
    /\ cpu = << >>

\* the processor reports present exactly for a page that translates
PageFault ==
    /\ halted = "no"
    /\ \E a \in PFPages, user \in BOOLEAN, no_exec \in BOOLEAN,
          g \in Garbage :
         \E present \in {Walk(ptmem, a, g).res = "Ok"} :
         \E r \in {page_fault([bm |-> bm, pm |-> ptmem], a, present, user,
                              no_exec, g)} :
             /\ bm' = r.bm
             /\ ptmem' = r.pm
             /\ op' = [name |-> "page_fault", res |-> r.res, addr |-> a,
                       present |-> present, user |-> user,
                       no_exec |-> no_exec]
             /\ halted' = IF r.res = "Resolved" THEN halted ELSE "fatal"
    /\ UNCHANGED <<heap, handed, live, mapped, cpu>>

NextPF == PageFault

SpecPF == InitPF /\ [][NextPF]_vars

\* C9: a page fault reported with present, no_exec or user set ends in the
\* fatal outcome whatever the address, no frame is allocated and no
\* page-table entry is changed.
C9_FlagsFatal ==
    [][(op'.name = "page_fault"
            /\ (op'.present \/ op'.no_exec \/ op'.user))
        => (op'.res = "Fatal" /\ halted' = "fatal"
            /\ bm' = bm /\ ptmem' = ptmem)]_vars

\* a user-mode fault on a mappable, not present page ended fatally
C9_Witness ==
    /\ op.name = "page_fault"
    /\ op.user
    /\ ~op.present
    /\ ~op.no_exec
    /\ Mappable(op.addr)
    /\ op.res = "Fatal"
    /\ halted = "fatal"

\* the page of a resolved fault: kernel-only, writable, executable, backed
\* by a frame that was free before the fault and is in use after it
MappedFresh(b, b2, pm2, a) ==
    \A g \in Garbage :
        LET p == get_pt_entry_ptr(pm2, a, g)
            e == PRead(pm2, p.frame, p.idx, g)
            n == addr_to_frame(b, get_addr(e))
        IN  /\ PageTables_virt_to_phys(pm2, a, g).res = "Ok"
            /\ ~e.user /\ e.writable /\ ~e.nx
            /\ n # NoIdx
            /\ is_clear(b.map[n \div NUM_BITS_PER_FIELD],
                        n % NUM_BITS_PER_FIELD)
            /\ is_set(b2.map[n \div NUM_BITS_PER_FIELD],
                      n % NUM_BITS_PER_FIELD)

\* the kernel fault on a not present page, with the condition under which
\* it is resolved
KernelFault(enough) ==
    (op'.name = "page_fault" /\ op' # op
        /\ ~op'.present /\ ~op'.no_exec /\ ~op'.user)
    => /\ (op'.res = "Resolved") <=> (Mappable(op'.addr) /\ enough)
       /\ (op'.res = "Resolved") => MappedFresh(bm, bm', ptmem', op'.addr)
       /\ (op'.res # "Resolved") => halted' = "fatal"
       /\ ~Mappable(op'.addr) =>
            (op'.res = "Fatal" /\ bm' = bm /\ ptmem' = ptmem)

\* C10 as stated: a kernel fault on a not present page is resolved exactly
\* when the address is below KERNEL_HEAP_METADATA_END_ADDR or in the
\* page-table window; the page is then mapped kernel-only, writable and
\* executable to a new frame; any other address is fatal and maps nothing.
C10_ResolvedIffMappable == [][KernelFault(TRUE)]_vars

\* C10 amended: resolved exactly when the address is mappable and the frame
\* allocator has a frame for the page and for each table missing on its path.
C10_ResolvedIffMappableAndFrames ==
    [][KernelFault(\A g \in Garbage :
            FreeCount(bm) >= Needed(ptmem, op'.addr, g))]_vars

\* a fault on the last metadata page was resolved, creating its tables
C10_Witness ==
    /\ op.name = "page_fault"
    /\ op.res = "Resolved"
    /\ op.addr = W(KERNEL_HEAP_METADATA_END_ADDR[1] - 1, 0)
    /\ FreeCount(bm) > FreeLeft

(***************************************************************************)
(* mem/dyn_alloc/heap_node.rs and heap_node_alloc.rs                       *)
(*                                                                         *)
(* A pool is the record of HeapNodeAlloc with the memory it manages in the *)
(* field mem: slot index -> Option<HeapNode>.  A pointer to a node is the  *)
(* index of its slot.  The slots lie in the metadata region, whose pages   *)
(* are mapped by the page-fault handler at their first access.             *)
(***************************************************************************)
\* a slot that holds None
NoNode ==
    [some |-> FALSE, region |-> Region_new_sized(W(0, 0), 0), next |-> NoIdx,
     list_idx |-> 0]

\* Some(HeapNode::default())
HeapNode_default ==
    [some |-> TRUE, region |-> Region_new_sized(W(0, 0), 0), next |-> NoIdx,
     list_idx |-> 0]

\* the access of the processor to one page: a page that does not translate
\* raises the page fault, and the access goes on once the handler returns
touch_page(st, page_addr, g) ==
    IF st.res # "Ok" THEN st
    ELSE IF Walk(st.pm, page_addr, g).res = "Ok" THEN st
    ELSE Bind(page_fault(st, page_addr, FALSE, FALSE, FALSE, g), LAMBDA r :
            [r EXCEPT !.res = IF @ = "Resolved" THEN "Ok" ELSE @])

\* the access to the bytes addr .. addr + len - 1 (at most two pages)
touch(st, addr, len, g) ==
    touch_page(touch_page([bm |-> st.bm, pm |-> st.pm, res |-> "Ok"],
                          PageOf(addr), g),
               PageOf(WAdd(addr, len - 1)), g)

\* the mutant of HeapNodeAlloc_new: one slot more than the region holds
HeapNodeAlloc_new_more(mem_region) ==
    [start_addr |-> mem_region.addr,
     curr_count |-> 0,
     used_count |-> 0,
     max_count |-> (mem_region.size \div OPT_NODE_SIZE) + 1,
     mem |-> << >>]

HeapNodeAlloc_new(mem_region) ==
    [start_addr |-> mem_region.addr,
     curr_count |-> 0,
     used_count |-> 0,
     max_count |-> mem_region.size \div OPT_NODE_SIZE,
     mem |-> << >>]

\* address of the slot: Index::index
slot_addr(na, index) == WAdd(na.start_addr, OPT_NODE_SIZE * index)

\* the mutant of first_none: the scan is not made
first_none_zero(na) == 0

\* index of the first slot that holds None, 0 when there is none
first_none(na) ==
    Bind({i \in 0 .. (na.curr_count - 1) : ~na.mem[i].some}, LAMBDA none :
        IF none = {} THEN 0
        ELSE CHOOSE i \in none : \A j \in none : i <= j)

\* the node of slot idx set to the default node, and returned
fill_slot(na, st, idx) ==
    [na |-> [na EXCEPT
                !.mem = (idx :> [HeapNode_default EXCEPT !.list_idx = idx])
                            @@ @,
                !.used_count = @ + 1],
     bm |-> st.bm, pm |-> st.pm, res |-> "Ok", ptr |-> idx]

\* res "Ok" with the pointer, "Err" when the pool is full, or the fatal
\* result of the page fault raised by the memset of a new slot
HeapNodeAlloc_alloc(na, st, g) ==
    IF na.used_count = na.max_count
    THEN [na |-> na, bm |-> st.bm, pm |-> st.pm, res |-> "Err",
          ptr |-> NoIdx]
    ELSE IF na.curr_count = na.used_count
    THEN Bind(touch(st, slot_addr(na, na.curr_count), OPT_NODE_SIZE, g),
              LAMBDA st1 :
            IF st1.res # "Ok"
            THEN [na |-> na, bm |-> st1.bm, pm |-> st1.pm, res |-> st1.res,
                  ptr |-> NoIdx]
            ELSE fill_slot([na EXCEPT !.curr_count = @ + 1], st1,
                           na.curr_count))
    ELSE fill_slot(na, st, first_none(na))

\* res "Ok", "Err" (pointer outside the pool) or "Panic" (index assertion)
HeapNodeAlloc_free(na, node_ptr) ==
    Bind(slot_addr(na, node_ptr), LAMBDA node_addr :
        IF \/ WLt(node_addr, na.start_addr)
           \/ WLt(WAdd(na.start_addr, na.curr_count * OPT_NODE_SIZE),
                  node_addr)
           \/ WSub(node_addr, na.start_addr) % OPT_NODE_SIZE # 0
        THEN [na |-> na, res |-> "Err"]
        ELSE
    Bind(na.mem[node_ptr].list_idx, LAMBDA idx :
        IF idx >= na.curr_count
        THEN [na |-> na, res |-> "Panic"]
        ELSE [na |-> [na EXCEPT
                        !.mem[idx] = NoNode,
                        !.used_count = @ - 1,
                        !.curr_count = IF idx = @ - 1 THEN @ - 1 ELSE @],
              res |-> "Ok"]))

\* free with the pointer as an address.  A pointer that passes the test of
\* the range is read as a node: at a slot that holds a node the read gives
\* its list_idx, elsewhere (a slot that holds None, the memory after the
\* last slot) it gives what the bytes happen to hold, stale.  used_count of
\* 0 underflows: a panic where overflow is checked, else the counter wraps
\* (NoIdx stands for the largest usize).
HeapNodeAlloc_free_at(na, node_addr, stale, checked) ==
    IF \/ WLt(node_addr, na.start_addr)
       \/ WLt(WAdd(na.start_addr, na.curr_count * OPT_NODE_SIZE), node_addr)
       \/ WSub(node_addr, na.start_addr) % OPT_NODE_SIZE # 0
    THEN [na |-> na, res |-> "Err"]
    ELSE
    Bind(WSub(node_addr, na.start_addr) \div OPT_NODE_SIZE, LAMBDA slot :
    Bind(IF slot < na.curr_count /\ na.mem[slot].some
         THEN na.mem[slot].list_idx ELSE stale, LAMBDA idx :
        IF idx >= na.curr_count \/ (na.used_count = 0 /\ checked)
        THEN [na |-> na, res |-> "Panic"]
        ELSE [na |-> [na EXCEPT
                        !.mem[idx] = NoNode,
                        !.used_count = IF @ = 0 THEN NoIdx ELSE @ - 1,
                        !.curr_count = IF idx = @ - 1 THEN @ - 1 ELSE @],
              res |-> "Ok"]))

(***************************************************************************)
(* mem/dyn_alloc/heap_list.rs                                              *)
(***************************************************************************)
HeapList_new(metadata_region) ==
    [node_alloc |-> HeapNodeAlloc_new(metadata_region), head |-> NoIdx]

\* the nodes of the list in the order the iterator yields them
ListNodes(l) ==
    LET mem == l.node_alloc.mem
        at[n \in 0 .. l.node_alloc.curr_count] ==
            IF n = 0 THEN l.head
            ELSE IF at[n - 1] = NoIdx THEN NoIdx
            ELSE mem[at[n - 1]].next
        count == Cardinality({n \in 0 .. l.node_alloc.curr_count :
                                at[n] # NoIdx})
    IN  [n \in 1 .. count |-> at[n - 1]]

\* the mutant of HeapList_traverse: no node is ever found
HeapList_traverse_none(l, addr) == NoIdx

\* the last node of the list before the first node that is not below addr
HeapList_traverse(l, addr) ==
    LET mem == l.node_alloc.mem
        nodes == ListNodes(l)
        below == {n \in DOMAIN nodes :
                    \A k \in 1 .. n : WLt(mem[nodes[k]].region.addr, addr)}
    IN  IF below = {} THEN NoIdx ELSE nodes[Cardinality(below)]

\* the mutant of merge_node: the node is never joined to the one before
merge_node_skip(r, node) == [r EXCEPT !.prev_node = node]

\* one turn of the loop of merge on the node the iterator yields; r holds
\* the list, prev_node and the result of the turns before
merge_node(r, node) ==
    IF r.res # "Ok" THEN r
    ELSE IF r.prev_node = NoIdx THEN [r EXCEPT !.prev_node = node]
    ELSE IF end_addr(r.l.node_alloc.mem[r.prev_node].region)
                # r.l.node_alloc.mem[node].region.addr
    THEN [r EXCEPT !.prev_node = node]
    ELSE
    Bind([r.l.node_alloc EXCEPT
            !.mem[r.prev_node].region.size =
                @ + r.l.node_alloc.mem[node].region.size,
            !.mem[r.prev_node].next = r.l.node_alloc.mem[node].next],
         LAMBDA na1 :
    Bind(HeapNodeAlloc_free(na1, node), LAMBDA f :
        [l |-> [r.l EXCEPT !.node_alloc = f.na],
         prev_node |-> r.prev_node,
         res |-> IF f.res = "Ok" THEN "Ok" ELSE "Panic"]))

\* the mutant of HeapList_merge: the list is left as it is
HeapList_merge_none(l) == [l |-> l, res |-> "Ok"]

\* the iterator has read the next pointer of a node before the body of the
\* loop runs on it, and the body leaves the next pointers of the nodes
\* still to come as they are: the nodes visited are those of the list
HeapList_merge(l) ==
    LET nodes == ListNodes(l)
        after[n \in 0 .. Len(nodes)] ==
            IF n = 0 THEN [l |-> l, prev_node |-> NoIdx, res |-> "Ok"]
            ELSE merge_node(after[n - 1], nodes[n])
    IN  [l |-> after[Len(nodes)].l, res |-> after[Len(nodes)].res]

\* the new node linked in after prev, or as the head
link_node(l, na, new_node_ptr, prev) ==
    IF prev # NoIdx
    THEN [node_alloc |->
            [na EXCEPT !.mem[new_node_ptr].next = na.mem[prev].next,
                       !.mem[prev].next = new_node_ptr],
          head |-> l.head]
    ELSE [node_alloc |-> [na EXCEPT !.mem[new_node_ptr].next = l.head],
          head |-> new_node_ptr]

\* res "Ok" with the pointer of the new node, "Err", or a fatal result
HeapList_add(l, st, region, merge, g) ==
    Bind(HeapNodeAlloc_alloc(l.node_alloc, st, g), LAMBDA a :
        IF a.res # "Ok"
        THEN [l |-> l, bm |-> a.bm, pm |-> a.pm, res |-> a.res,
              ptr |-> NoIdx]
        ELSE
    Bind([a.na EXCEPT !.mem[a.ptr].region = region], LAMBDA na1 :
    Bind(link_node(l, na1, a.ptr,
                   HeapList_traverse([l EXCEPT !.node_alloc = na1],
                                     region.addr)), LAMBDA l1 :
        IF merge
        THEN Bind(HeapList_merge(l1), LAMBDA r :
                [l |-> r.l, bm |-> a.bm, pm |-> a.pm, res |-> r.res,
                 ptr |-> a.ptr])
        ELSE [l |-> l1, bm |-> a.bm, pm |-> a.pm, res |-> "Ok",
              ptr |-> a.ptr])))

\* the mutant of free_node: the slot of the node is not given back
free_node_leak(l1, node, region) ==
    [l |-> l1, res |-> "Ok", region |-> region]

\* the node freed once it is unlinked; the region is returned
free_node(l1, node, region) ==
    Bind(HeapNodeAlloc_free(l1.node_alloc, node), LAMBDA f :
        IF f.res = "Ok"
        THEN [l |-> [l1 EXCEPT !.node_alloc = f.na], res |-> "Ok",
              region |-> region]
        ELSE [l |-> l1, res |-> f.res, region |-> region])

\* the mutant of HeapList_remove: the node stays in the list
HeapList_remove_keep(l, node) ==
    [l |-> l, res |-> "Ok", region |-> l.node_alloc.mem[node].region]

\* res "Ok" with the region of the node, or "Err"
HeapList_remove(l, node) ==
    Bind(l.node_alloc.mem, LAMBDA mem :
    Bind(HeapList_traverse(l, mem[node].region.addr), LAMBDA prev_node :
        IF prev_node # NoIdx
        THEN IF mem[prev_node].next # NoIdx /\ mem[prev_node].next = node
             THEN free_node([l EXCEPT !.node_alloc.mem[prev_node].next =
                                        mem[node].next],
                            node, mem[node].region)
             ELSE [l |-> l, res |-> "Err", region |-> mem[node].region]
        ELSE IF l.head = node
             THEN free_node([l EXCEPT !.head = mem[node].next], node,
                            mem[node].region)
             ELSE [l |-> l, res |-> "Err", region |-> mem[node].region]))

(***************************************************************************)
(* mem/dyn_alloc/mod.rs                                                    *)
(***************************************************************************)
\* Region::new(start, end).size / 2, computed on the two limbs (the size of
\* the metadata region itself needs 33 bits)
half_size(start_addr, end_of_region) ==
    (end_of_region[1] - start_addr[1]) * (PAGE_SIZE \div 2)
        + ((end_of_region[2] - start_addr[2]) \div 2)

\* HeapAlloc::init for the metadata region from meta_addr to meta_end;
\* res "Ok" or a fatal result
HeapAlloc_init(st, meta_addr, meta_end, alloc_region, g) ==
    Bind(Region_new_sized(meta_addr, half_size(meta_addr, meta_end)),
         LAMBDA meta_region_free :
    Bind(Region_new_sized(end_addr(meta_region_free),
                          meta_region_free.size), LAMBDA meta_region_used :
    Bind(HeapList_add(HeapList_new(meta_region_free), st, alloc_region,
                      TRUE, g), LAMBDA f :
        [h |-> [free_list |-> f.l,
                used_list |-> HeapList_new(meta_region_used),
                num_allocs |-> 0],
         bm |-> f.bm, pm |-> f.pm,
         res |-> IF f.res = "Ok" THEN "Ok" ELSE "Panic"])))

\* res "Ok" with the offset of the aligned start, or "Err"
can_fit(free_region, size, align) ==
    Bind(align_higher_w(free_region.addr, align), LAMBDA aligned_start :
        IF WLt(WAdd(aligned_start, size), end_addr(free_region))
        THEN [res |-> "Ok", offset |-> WSub(aligned_start, free_region.addr)]
        ELSE [res |-> "Err", offset |-> 0])

\* the loop over the free list: the first node whose region can fit
first_fit(l, size, align) ==
    LET nodes == ListNodes(l)
        fit == {n \in DOMAIN nodes :
                    can_fit(l.node_alloc.mem[nodes[n]].region, size,
                            align).res = "Ok"}
    IN  IF fit = {} THEN NoIdx
        ELSE nodes[CHOOSE n \in fit : \A k \in fit : n <= k]

\* lines 149 to 177: the allocated region put into the used list, the
\* counter, the mapping of the range and the pointer
take_region(h1, s1, alloc_region, offset, aligned_size, is_user, is_writable, is_no_exec, g) ==
    Bind(HeapList_add(h1.used_list, s1, alloc_region, FALSE, g), LAMBDA u :
        IF u.res # "Ok"
        THEN [h |-> [h1 EXCEPT !.used_list = u.l], bm |-> u.bm, pm |-> u.pm,
              res |-> "Panic", ptr |-> W(0, 0)]
        ELSE
    Bind(WAdd(alloc_region.addr, offset), LAMBDA allocated_ptr :
    Bind(map_range(u, allocated_ptr, aligned_size, is_user, is_writable,
                   is_no_exec, g), LAMBDA r :
        [h |-> [h1 EXCEPT !.used_list = u.l, !.num_allocs = @ + 1],
         bm |-> r.bm, pm |-> r.pm, res |-> r.res, ptr |-> allocated_ptr])))

\* lines 143 to 147: the after region put into the free list if it is not
\* empty; res "Ok" or "Panic"
add_after(h1, st, after_region, g) ==
    IF after_region.size > 0
    THEN Bind(HeapList_add(h1.free_list, st, after_region, TRUE, g),
              LAMBDA f :
            [h |-> [h1 EXCEPT !.free_list = f.l], bm |-> f.bm, pm |-> f.pm,
             res |-> IF f.res = "Ok" THEN "Ok" ELSE "Panic"])
    ELSE [h |-> h1, bm |-> st.bm, pm |-> st.pm, res |-> "Ok"]

\* res "Ok" with the pointer returned (0 when no region fits), or a fatal
\* result: "Panic" of an expect, or the result of map_range
internal_alloc(h, st, size, align, is_user, is_writable, is_no_exec, g) ==
    Bind(align_higher(size, PAGE_SIZE), LAMBDA aligned_size :
    Bind(first_fit(h.free_list, aligned_size, align), LAMBDA node_ptr :
        IF node_ptr = NoIdx
        THEN Bind(map_range(st, W(0, 0), aligned_size, is_user, is_writable,
                            is_no_exec, g), LAMBDA r :
                [h |-> [h EXCEPT !.num_allocs = @ + 1],
                 bm |-> r.bm, pm |-> r.pm, res |-> r.res, ptr |-> W(0, 0)])
        ELSE
    Bind(can_fit(h.free_list.node_alloc.mem[node_ptr].region, aligned_size,
                 align).offset, LAMBDA offset :
    Bind(HeapList_remove(h.free_list, node_ptr), LAMBDA rm :
        IF rm.res # "Ok"
        THEN [h |-> [h EXCEPT !.free_list = rm.l], bm |-> st.bm,
              pm |-> st.pm, res |-> "Panic", ptr |-> W(0, 0)]
        ELSE
    Bind(Region_new_sized(rm.region.addr, aligned_size),
         LAMBDA alloc_region :
    Bind(add_after([h EXCEPT !.free_list = rm.l], st,
                   Region_new(end_addr(alloc_region), end_addr(rm.region)),
                   g), LAMBDA f :
        IF f.res # "Ok"
        THEN [h |-> f.h, bm |-> f.bm, pm |-> f.pm, res |-> "Panic",
              ptr |-> W(0, 0)]
        ELSE take_region(f.h, f, alloc_region, offset, aligned_size,
                         is_user, is_writable, is_no_exec, g)))))))

\* the loop over the used list, taking the head when no region starts at addr
first_at_head(l, addr) ==
    LET nodes == ListNodes(l)
        hit == {n \in DOMAIN nodes :
                    l.node_alloc.mem[nodes[n]].region.addr = addr}
    IN  IF hit = {} THEN l.head
        ELSE nodes[CHOOSE n \in hit : \A k \in hit : n <= k]

\* the loop over the used list: the first node whose region starts at addr
first_at(l, addr) ==
    LET nodes == ListNodes(l)
        hit == {n \in DOMAIN nodes :
                    l.node_alloc.mem[nodes[n]].region.addr = addr}
    IN  IF hit = {} THEN NoIdx
        ELSE nodes[CHOOSE n \in hit : \A k \in hit : n <= k]

\* res "Ok", or a fatal result: "Panic" of an expect on the lists, or the
\* result of unmap_range
internal_dealloc(h, st, ptr, g) ==
    Bind(first_at(h.used_list, align_lower_w(ptr, PAGE_SIZE)),
         LAMBDA node_ptr :
        IF node_ptr = NoIdx
        THEN [h |-> h, bm |-> st.bm, pm |-> st.pm, res |-> "Ok"]
        ELSE
    Bind(HeapList_remove(h.used_list, node_ptr), LAMBDA rm :
        IF rm.res # "Ok"
        THEN [h |-> [h EXCEPT !.used_list = rm.l], bm |-> st.bm,
              pm |-> st.pm, res |-> "Panic"]
        ELSE
    Bind(HeapList_add(h.free_list, st, rm.region, TRUE, g), LAMBDA f :
        IF f.res # "Ok"
        THEN [h |-> [h EXCEPT !.used_list = rm.l, !.free_list = f.l],
              bm |-> f.bm, pm |-> f.pm, res |-> "Panic"]
        ELSE
    Bind(unmap_range(f, rm.region.addr, rm.region.size, g), LAMBDA r :
        [h |-> [h EXCEPT
                    !.used_list = rm.l,
                    !.free_list = f.l,
                    !.num_allocs = IF r.res = "Ok" THEN @ - 1 ELSE @],
         bm |-> r.bm, pm |-> r.pm, res |-> r.res]))))

kmalloc(h, st, size, is_user, is_writable, is_no_exec, g) ==
    internal_alloc(h, st, size, PAGE_SIZE, is_user, is_writable, is_no_exec,
                   g)

kfree(h, st, ptr, g) == internal_dealloc(h, st, ptr, g)

(***************************************************************************)
(* Specification of the dynamic allocator: kmalloc and kfree, each run to  *)
(* its end by one caller                                                   *)
(***************************************************************************)
\* number of kmalloc calls in a run
MaxCalls == 4

\* map::KERNEL_HEAP_END_ADDR, brought down to HeapPages pages after the
\* start of the heap; like 0x7FFFFFFFFFFF it is the last byte of a page
KERNEL_HEAP_END_ADDR ==
    WAdd(KERNEL_HEAP_METADATA_END_ADDR, HeapPages * PAGE_SIZE - 1)

\* heap_mem of mem::init
HeapRegion == Region_new(KERNEL_HEAP_METADATA_END_ADDR, KERNEL_HEAP_END_ADDR)

\* dyn_alloc::init as called by mem::init, on the boot state
BootHeap(g) ==
    HeapAlloc_init([bm |-> BootBitMap, pm |-> BootTables], KERNEL_END_ADDR,
                   KERNEL_HEAP_METADATA_END_ADDR, HeapRegion, g)

\* sizes asked of kmalloc: none, less than a page, a page, two pages
HeapSizes == {0, 100, PAGE_SIZE, 2 * PAGE_SIZE}

\* the allocations a caller holds, <<pointer, rounded size>> -> how many
AddLive(lv, k) ==
    IF k \in DOMAIN lv THEN [lv EXCEPT ![k] = @ + 1] ELSE (k :> 1) @@ lv

DropLive(lv, k) ==
    IF lv[k] > 1 THEN [lv EXCEPT ![k] = @ - 1]
    ELSE [x \in (DOMAIN lv) \ {k} |-> lv[x]]

InitHeap ==
    /\ \E g \in Garbage :
         \E r \in {BootHeap(g)} :
            /\ bm = r.bm
            /\ ptmem = r.pm
            /\ heap = r.h
    /\ halted = "no"
    /\ op = [name |-> "init", res |-> "Ok", ptr |-> W(0, 0), size |-> 0,
             calls |-> 0, nulls |-> 0]
    /\ handed = {}
    /\ live = << >>
    /\ mapped = << >>
    /\ cpu = << >>

\* a null pointer returned is not an allocation
KMalloc ==
    /\ halted = "no"
    /\ op.calls < MaxCalls
    /\ \E size \in HeapSizes, g \in Garbage :
         \E r \in {kmalloc(heap, [bm |-> bm, pm |-> ptmem], size,
                           FALSE, TRUE, FALSE, g)} :
            /\ heap' = r.h
            /\ bm' = r.bm
            /\ ptmem' = r.pm
            /\ op' = [name |-> "kmalloc", res |-> r.res, ptr |-> r.ptr,
                      size |-> size, calls |-> op.calls + 1,
                      nulls |-> IF r.ptr = W(0, 0) THEN op.nulls + 1
                                ELSE op.nulls]
            /\ halted' = IF r.res = "Ok" THEN halted ELSE "panic"
            /\ live' = IF r.res = "Ok" /\ r.ptr # W(0, 0)
                       THEN AddLive(live, <<r.ptr,
                                            align_higher(size, PAGE_SIZE)>>)
                       ELSE live
    /\ UNCHANGED <<handed, mapped, cpu>>

\* the caller frees one of its allocations by the pointer kmalloc returned
KFree ==
    /\ halted = "no"
    /\ \E k \in DOMAIN live, g \in Garbage :
         \E r \in {kfree(heap, [bm |-> bm, pm |-> ptmem], k[1], g)} :
            /\ heap' = r.h
            /\ bm' = r.bm
            /\ ptmem' = r.pm
            /\ op' = [name |-> "kfree", res |-> r.res, ptr |-> k[1],
                      size |-> k[2], calls |-> op.calls,
                      nulls |-> op.nulls]
            /\ halted' = IF r.res = "Ok" THEN halted ELSE "panic"
            /\ live' = DropLive(live, k)
    /\ UNCHANGED <<handed, mapped, cpu>>

\* kfree of the null pointer
KFreeNull ==
    /\ halted = "no"
    /\ \E g \in Garbage :
         \E r \in {kfree(heap, [bm |-> bm, pm |-> ptmem], W(0, 0), g)} :
            /\ heap' = r.h
            /\ bm' = r.bm
            /\ ptmem' = r.pm
            /\ op' = [name |-> "kfree", res |-> r.res, ptr |-> W(0, 0),
                      size |-> 0, calls |-> op.calls, nulls |-> op.nulls]
            /\ halted' = IF r.res = "Ok" THEN halted ELSE "panic"
    /\ UNCHANGED <<handed, live, mapped, cpu>>

\* pointers given to kfree by a caller that does not hold them: the start
\* of each page of the heap and a byte inside the first
StalePtrs ==
    {WAdd(HeapRegion.addr, n * PAGE_SIZE) : n \in 0 .. (HeapPages - 1)}
        \cup {WAdd(HeapRegion.addr, 8)}

\* kfree of a pointer that, aligned down to its page, is the start of no
\* live allocation: one never returned, one inside an allocation, or one
\* freed before
KFreeStale ==
    /\ halted = "no"
    /\ \E ptr \in StalePtrs, g \in Garbage :
         /\ \A k \in DOMAIN live : k[1] # align_lower_w(ptr, PAGE_SIZE)
         /\ \E r \in {kfree(heap, [bm |-> bm, pm |-> ptmem], ptr, g)} :
               /\ heap' = r.h
               /\ bm' = r.bm
               /\ ptmem' = r.pm
               /\ op' = [name |-> "kfree_stale", res |-> r.res, ptr |-> ptr,
                         size |-> 0, calls |-> op.calls, nulls |-> op.nulls]
               /\ halted' = IF r.res = "Ok" THEN halted ELSE "panic"
    /\ UNCHANGED <<handed, live, mapped, cpu>>

NextHeap == KMalloc \/ KFree \/ KFreeNull \/ KFreeStale

SpecHeap == InitHeap /\ [][NextHeap]_vars

\* the byte range of a live allocation
LiveRange(k) == Region_new_sized(k[1], k[2])

\* C1: the byte ranges [p, p + size rounded up to a page multiple) of the
\* live allocations (returned by kmalloc and not freed since) are pairwise
\* disjoint, a range reused after kfree included.
C1_LiveDisjoint ==
    \A k1 \in DOMAIN live :
        /\ live[k1] > 1 => k1[2] = 0
        /\ \A k2 \in (DOMAIN live) \ {k1} :
              ~Overlap(LiveRange(k1), LiveRange(k2))

\* the regions of the nodes of a list, in list order
ListRegions(l) ==
    LET nodes == ListNodes(l)
    IN  [n \in DOMAIN nodes |-> l.node_alloc.mem[nodes[n]].region]

RECURSIVE SumSizes(_)
SumSizes(rs) == IF rs = << >> THEN 0 ELSE Head(rs).size + SumSizes(Tail(rs))

\* the regions partition the heap region: none overlaps another, each lies
\* in the heap region, and their sizes add up to its size
Partition(rs) ==
    /\ \A i, j \in DOMAIN rs : i < j => ~Overlap(rs[i], rs[j])
    /\ \A i \in DOMAIN rs :
          rs[i].size > 0 =>
             /\ WLe(HeapRegion.addr, rs[i].addr)
             /\ WLe(end_addr(rs[i]), end_addr(HeapRegion))
    /\ SumSizes(rs) = HeapRegion.size

\* C2: after init and after every kmalloc / kfree that returns, the regions
\* of the free list and of the used list are pairwise non-overlapping and
\* their union is exactly the heap region donated at init.
C2_ListsPartitionHeap ==
    halted = "no" =>
        Partition(ListRegions(heap.free_list) \o ListRegions(heap.used_list))

\* a kfree has returned, leaving two free regions around a used one
C2_Witness ==
    /\ op.name = "kfree"
    /\ op.res = "Ok"
    /\ halted = "no"
    /\ Len(ListRegions(heap.free_list)) >= 2
    /\ Len(ListRegions(heap.used_list)) >= 1

\* the places in the free list of the regions of at least size bytes
Holding(h, size) ==
    {i \in DOMAIN ListRegions(h.free_list) :
        ListRegions(h.free_list)[i].size >= size}

\* the step is a kmalloc that returned
KMallocReturned ==
    /\ op'.name = "kmalloc"
    /\ op'.calls = op.calls + 1
    /\ halted' = "no"

\* C11: kmalloc is first-fit: it returns the start of the lowest-addressed
\* free region able to hold the page-rounded request, so a freed range of
\* exactly the requested size is reused (kmalloc(4096) twice giving a and
\* b, kfree(a), and a third kmalloc(4096) returns a again).
C11_FirstFit ==
    [][KMallocReturned =>
          \E size \in {align_higher(op'.size, PAGE_SIZE)} :
          \E regions \in {ListRegions(heap.free_list)} :
          \E fit \in {Holding(heap, size)} :
             fit # {} =>
                \E i \in fit :
                   /\ op'.ptr = regions[i].addr
                   /\ \A k \in fit : WLe(regions[i].addr, regions[k].addr)]_vars

\* C12: when no free region fits the request, kmalloc reports failure and
\* leaves the free list, the used list, the page table and the frame bitmap
\* unchanged: it allocates no frame, maps no page and hands back no usable
\* pointer.
C12_NoFitChangesNothing ==
    [][(KMallocReturned
          /\ Holding(heap, align_higher(op'.size, PAGE_SIZE)) = {}) =>
             /\ op'.ptr = W(0, 0)
             /\ heap'.free_list = heap.free_list
             /\ heap'.used_list = heap.used_list
             /\ ptmem' = ptmem
             /\ bm' = bm]_vars

\* the pages of the heap region that are mapped
HeapMapped ==
    {n \in 0 .. (HeapPages - 1) :
        \E g \in Garbage :
            PageTables_virt_to_phys(ptmem,
                WAdd(HeapRegion.addr, n * PAGE_SIZE), g).res = "Ok"}

\* C30: after kmalloc calls that all returned a pointer, and kfree of every
\* pointer returned, in any order, the used list is empty, the free list is
\* the one region donated at init, and no page of the heap is mapped.
C30_AllFreedCoalesces ==
    (halted = "no" /\ op.name = "kfree" /\ op.nulls = 0 /\ live = << >>)
        => /\ ListRegions(heap.used_list) = << >>
           /\ ListRegions(heap.free_list) = <<HeapRegion>>
           /\ HeapMapped = {}

\* the present entries of the page tables that name the frame at page
\* number pg, as <<table frame, index>>
Referers(pm, pg) ==
    {ti \in UNION {{<<t, i>> : i \in (DOMAIN pm[t]) \ {JUNK}} :
                        t \in DOMAIN pm} :
        pm[ti[1]][ti[2]].present /\ pm[ti[1]][ti[2]].addr = pg}

\* the frames whose bit is set in the bitmap
UsedFrames(b) == {n \in 0 .. (b.frames_count - 1) : ~IsFree(b, n)}

\* the pages from address 0 on, as many as the largest request, that
\* translate to a frame of the frame allocator
NullMapped ==
    {n \in 0 .. (HeapPages - 1) :
        \E g \in Garbage :
            \E r \in {PageTables_virt_to_phys(ptmem, W(n, 0), g)} :
                r.res = "Ok" /\ InFrames(bm, r.addr)}

\* C36: after every kmalloc and kfree that returns, a request of size zero
\* and one that no region fits included, every frame whose bit is set in
\* the bitmap is named by exactly one present page-table entry, and once
\* every allocation is freed no page of the heap and no page at the null
\* pointer is mapped to a frame.
C36_NoFrameLeaked ==
    halted = "no" =>
        /\ \A n \in UsedFrames(bm) :
              Cardinality(Referers(ptmem, frame_to_addr(bm, n)[1])) = 1
        /\ (op.name = "kfree" /\ live = << >>) =>
              HeapMapped = {} /\ NullMapped = {}

\* C38: kfree of a pointer that, aligned down to a page boundary, is the
\* start of no live allocation (never allocated, or freed before) returns
\* and leaves the free list, the used list, the allocation counter, the
\* page tables and the frame bitmap as they were.
C38_StaleFreeChangesNothing ==
    [][op'.name = "kfree_stale" =>
          /\ halted' = halted
          /\ heap' = heap
          /\ ptmem' = ptmem
          /\ bm' = bm]_vars

\* the first pointer handed out has been freed, and freed once more while
\* another allocation is live
C38_Witness ==
    /\ op.name = "kfree_stale"
    /\ op.ptr = HeapRegion.addr
    /\ op.calls >= 2
    /\ live # << >>
    /\ ListRegions(heap.used_list) # << >>

(***************************************************************************)
(* Specification of the global allocator: GlobalAlloc::alloc and dealloc   *)
(* with the layouts of the callers, alignments above a page included       *)
(***************************************************************************)
\* number of alloc calls in a run
MaxAllocs == 3

\* the heap region donated at init, two pages longer than HeapRegion: room
\* for an allocation, the padding of an alignment of two pages, and a span
WideHeapRegion ==
    Region_new(KERNEL_HEAP_METADATA_END_ADDR,
               WAdd(KERNEL_HEAP_END_ADDR, 2 * PAGE_SIZE))

\* sizes and alignments of the layouts: a word, a page and two pages
LayoutSizes == {100, PAGE_SIZE}
LayoutAligns == {8, PAGE_SIZE, 2 * PAGE_SIZE}

InitLayout ==
    /\ \E g \in Garbage :
         \E r \in {HeapAlloc_init([bm |-> BootBitMap, pm |-> BootTables],
                                  KERNEL_END_ADDR,
                                  KERNEL_HEAP_METADATA_END_ADDR,
                                  WideHeapRegion, g)} :
            /\ bm = r.bm
            /\ ptmem = r.pm
            /\ heap = r.h
    /\ halted = "no"
    /\ op = [name |-> "init", res |-> "Ok", ptr |-> W(0, 0), size |-> 0,
             align |-> 0, calls |-> 0]
    /\ handed = {}
    /\ live = << >>
    /\ mapped = << >>
    /\ cpu = << >>

\* GlobalAlloc::alloc(layout); live holds the spans [ptr, ptr + size) of
\* the pointers returned
GlobalAlloc_alloc ==
    /\ halted = "no"
    /\ op.calls < MaxAllocs
    /\ \E size \in LayoutSizes, align \in LayoutAligns, g \in Garbage :
         \E r \in {internal_alloc(heap, [bm |-> bm, pm |-> ptmem], size,
                                  align, FALSE, TRUE, FALSE, g)} :
            /\ heap' = r.h
            /\ bm' = r.bm
            /\ ptmem' = r.pm
            /\ op' = [name |-> "alloc", res |-> r.res, ptr |-> r.ptr,
                      size |-> size, align |-> align,
                      calls |-> op.calls + 1]
            /\ halted' = IF r.res = "Ok" THEN halted ELSE "panic"
            /\ live' = IF r.res = "Ok" /\ r.ptr # W(0, 0)
                       THEN AddLive(live, <<r.ptr, size>>)
                       ELSE live
    /\ UNCHANGED <<handed, mapped, cpu>>

\* GlobalAlloc::dealloc(ptr, layout) of a pointer alloc returned
GlobalAlloc_dealloc ==
    /\ halted = "no"
    /\ \E k \in DOMAIN live, g \in Garbage :
         \E r \in {internal_dealloc(heap, [bm |-> bm, pm |-> ptmem], k[1],
                                    g)} :
            /\ heap' = r.h
            /\ bm' = r.bm
            /\ ptmem' = r.pm
            /\ op' = [name |-> "dealloc", res |-> r.res, ptr |-> k[1],
                      size |-> k[2], align |-> 0, calls |-> op.calls]
            /\ halted' = IF r.res = "Ok" THEN halted ELSE "panic"
            /\ live' = DropLive(live, k)
    /\ UNCHANGED <<handed, mapped, cpu>>

NextLayout == GlobalAlloc_alloc \/ GlobalAlloc_dealloc

SpecLayout == InitLayout /\ [][NextLayout]_vars

\* the region r holds the whole span
HoldsSpan(r, k) ==
    /\ WLe(r.addr, k[1])
    /\ WLe(WAdd(k[1], k[2]), end_addr(r))

\* C39: the span [ptr, ptr + size) of every pointer returned by alloc and
\* not yet deallocated, whatever the alignment of its layout, lies inside a
\* region of the used list and shares no byte with a region of the free
\* list.
C39_SpanInsideUsedRegion ==
    halted = "no" =>
        \A k \in DOMAIN live :
            /\ \E i \in DOMAIN ListRegions(heap.used_list) :
                  HoldsSpan(ListRegions(heap.used_list)[i], k)
            /\ \A i \in DOMAIN ListRegions(heap.free_list) :
                  ~Overlap(ListRegions(heap.free_list)[i], LiveRange(k))

(***************************************************************************)
(* Specification of identity mapping: identity_map and identity_map_range  *)
(* next to alloc() and unmap                                               *)
(***************************************************************************)
\* frames offered to identity_map: the first frames and one of the second
\* bitmap word
IdentFrames == {FrameAddr(0), FrameAddr(1), FrameAddr(2), FrameAddr(64)}

\* sizes offered to identity_map_range
IdentSizes == {PAGE_SIZE, 2 * PAGE_SIZE}

\* the frame addresses of the pages of a range
RangeFrames(frame_addr, size) ==
    {WAdd(frame_addr, n * PAGE_SIZE) : n \in 0 .. (get_num_pages(size) - 1)}

\* the frame of an address is in the managed range and its bit is clear
FrameFree(b, addr) ==
    /\ addr_to_frame(b, addr) # NoIdx
    /\ addr_to_frame(b, addr) < b.frames_count
    /\ is_clear(b.map[addr_to_frame(b, addr) \div NUM_BITS_PER_FIELD],
                addr_to_frame(b, addr) % NUM_BITS_PER_FIELD)

InitIdent ==
    /\ bm = BootBitMap
    /\ ptmem = BootTables
    /\ heap = << >>
    /\ halted = "no"
    /\ op = [name |-> "init", res |-> "Ok", addr |-> NoAddr, size |-> 0,
             free |-> FALSE]
    /\ handed = {}
    /\ live = << >>
    /\ mapped = {}
    /\ cpu = << >>

\* mapped: the frames identity_map took from the frame allocator
IdentityMap ==
    /\ halted = "no"
    /\ \E a \in IdentFrames, g \in Garbage :
         \E r \in {identity_map([bm |-> bm, pm |-> ptmem], a, FALSE, TRUE,
                                FALSE, g)} :
            /\ bm' = r.bm
            /\ ptmem' = r.pm
            /\ op' = [name |-> "identity_map", res |-> r.res, addr |-> a,
                      size |-> PAGE_SIZE, free |-> FrameFree(bm, a)]
            /\ mapped' = IF FrameFree(bm, a) THEN mapped \cup {a} ELSE mapped
            /\ halted' = IF r.res = "Panic" THEN "panic" ELSE halted
    /\ UNCHANGED <<heap, handed, live, cpu>>

IdentityMapRange ==
    /\ halted = "no"
    /\ \E a \in IdentFrames, size \in IdentSizes, g \in Garbage :
         \E r \in {identity_map_range([bm |-> bm, pm |-> ptmem], a, size,
                                      FALSE, TRUE, FALSE, g)} :
            /\ bm' = r.bm
            /\ ptmem' = r.pm
            /\ op' = [name |-> "identity_map_range", res |-> r.res,
                      addr |-> a, size |-> size,
                      free |-> \A f \in RangeFrames(a, size) :
                                  FrameFree(bm, f)]
            /\ mapped' = mapped \cup {f \in RangeFrames(a, size) :
                                         FrameFree(bm, f) /\ ~FrameFree(r.bm, f)}
            /\ halted' = IF r.res = "Panic" THEN "panic" ELSE halted
    /\ UNCHANGED <<heap, handed, live, cpu>>

\* frame_alloc::alloc()
IdentAlloc ==
    /\ halted = "no"
    /\ Cardinality(handed) < MaxHanded
    /\ \E r \in {frame_alloc_alloc(bm)} :
           /\ bm' = r.bm
           /\ op' = [name |-> "alloc", res |-> r.res, addr |-> r.addr,
                     size |-> 0, free |-> FALSE]
           /\ handed' = IF r.res = "Ok" THEN handed \cup {r.addr} ELSE handed
    /\ UNCHANGED <<ptmem, heap, halted, live, mapped, cpu>>

\* vmm::unmap of the page of a frame offered to identity_map
IdentUnmap ==
    /\ halted = "no"
    /\ \E a \in IdentFrames, g \in Garbage :
         \E r \in {vmm_unmap([bm |-> bm, pm |-> ptmem], a, g)} :
            /\ bm' = r.bm
            /\ ptmem' = r.pm
            /\ op' = [name |-> "unmap", res |-> r.res, addr |-> a,
                      size |-> PAGE_SIZE, free |-> FALSE]
            /\ mapped' = IF r.res = "Ok" THEN mapped \ {a} ELSE mapped
            /\ handed' = IF r.res = "Ok" THEN handed \ {a} ELSE handed
            /\ halted' = IF r.res = "Panic" THEN "panic" ELSE halted
    /\ UNCHANGED <<heap, live, cpu>>

NextIdent == IdentityMap \/ IdentityMapRange \/ IdentAlloc \/ IdentUnmap

SpecIdent == InitIdent /\ [][NextIdent]_vars

\* the page at the address of a frame translates to the frame
IdentityTranslates(pm, frame_addr) ==
    \A g \in Garbage :
        PageTables_virt_to_phys(pm, frame_addr, g)
            = [res |-> "Ok", addr |-> frame_addr]

\* C13: identity_map(frame_addr) on a free in-range frame returns Ok, after
\* which the bit of the frame is set in the bitmap and the page at
\* frame_addr translates to frame_addr, and no later alloc() returns that
\* frame while it is identity-mapped; identity_map_range does the same for
\* every page of its range.
C13_IdentityMapTakesFrame ==
    /\ (op.name \in {"identity_map", "identity_map_range"} /\ op.free) =>
          /\ op.res = "Ok"
          /\ \A f \in RangeFrames(op.addr, op.size) :
                /\ ~FrameFree(bm, f)
                /\ IdentityTranslates(ptmem, f)
    /\ handed \cap mapped = {}

(***************************************************************************)
(* Specification of one HeapList: add, remove and merge                    *)
(***************************************************************************)
\* number of nodes in the list
MaxNodes == 3

\* the region of n pages at page i of the heap
HeapPagesAt(i, n) ==
    Region_new_sized(WAdd(KERNEL_HEAP_METADATA_END_ADDR, i * PAGE_SIZE),
                     n * PAGE_SIZE)

\* regions offered to add: three pages in a row, a page apart from them,
\* and two pages that cover the first two
ListInputs ==
    {HeapPagesAt(0, 1), HeapPagesAt(1, 1), HeapPagesAt(2, 1),
     HeapPagesAt(4, 1), HeapPagesAt(0, 2)}

\* the metadata region of the free list of HeapAlloc::init
ListMetadata ==
    Region_new_sized(KERNEL_END_ADDR,
                     half_size(KERNEL_END_ADDR, KERNEL_HEAP_METADATA_END_ADDR))

InitList ==
    /\ bm = BootBitMap
    /\ ptmem = BootTables
    /\ heap = HeapList_new(ListMetadata)
    /\ halted = "no"
    /\ op = [name |-> "new", res |-> "Ok", region |-> NoRegion,
             merge |-> FALSE, node |-> NoIdx, count |-> 0]
    /\ handed = {}
    /\ live = << >>
    /\ mapped = << >>
    /\ cpu = << >>

HLAdd ==
    /\ halted = "no"
    /\ heap.node_alloc.used_count < MaxNodes
    /\ \E region \in ListInputs, merge \in BOOLEAN, g \in Garbage :
         \E r \in {HeapList_add(heap, [bm |-> bm, pm |-> ptmem], region,
                                merge, g)} :
            /\ heap' = r.l
            /\ bm' = r.bm
            /\ ptmem' = r.pm
            /\ op' = [name |-> "add", res |-> r.res, region |-> region,
                      merge |-> merge, node |-> r.ptr,
                      count |-> heap.node_alloc.used_count]
            /\ halted' = IF r.res \in {"Ok", "Err"} THEN halted ELSE "panic"
    /\ UNCHANGED <<handed, live, mapped, cpu>>

\* remove of a node of the list
HLRemove ==
    /\ halted = "no"
    /\ \E n \in DOMAIN ListNodes(heap) :
         \E r \in {HeapList_remove(heap, ListNodes(heap)[n])} :
            /\ heap' = r.l
            /\ op' = [name |-> "remove", res |-> r.res,
                      region |-> IF r.res = "Ok" THEN r.region ELSE NoRegion,
                      merge |-> FALSE, node |-> ListNodes(heap)[n],
                      count |-> heap.node_alloc.used_count]
            /\ halted' = IF r.res \in {"Ok", "Err"} THEN halted ELSE "panic"
    /\ UNCHANGED <<bm, ptmem, handed, live, mapped, cpu>>

HLMerge ==
    /\ halted = "no"
    /\ \E r \in {HeapList_merge(heap)} :
            /\ heap' = r.l
            /\ op' = [name |-> "merge", res |-> r.res, region |-> NoRegion,
                      merge |-> TRUE, node |-> NoIdx,
                      count |-> heap.node_alloc.used_count]
            /\ halted' = IF r.res = "Ok" THEN halted ELSE "panic"
    /\ UNCHANGED <<bm, ptmem, handed, live, mapped, cpu>>

NextList == HLAdd \/ HLRemove \/ HLMerge

SpecList == InitList /\ [][NextList]_vars

\* C14: after any sequence of add (with or without merge), remove and merge
\* on a HeapList, the nodes reachable from head are in ascending order of
\* the start address of their regions.
C14_ListSorted ==
    \E rs \in {ListRegions(heap)} :
        /\ Len(rs) = heap.node_alloc.used_count
        /\ \A i, j \in DOMAIN rs : i < j => WLe(rs[i].addr, rs[j].addr)

\* an add has put a node between two nodes of the list
C14_Witness ==
    /\ op.name = "add"
    /\ op.res = "Ok"
    /\ \E rs \in {ListRegions(heap)} :
          \E i \in DOMAIN rs :
             /\ 1 < i
             /\ i < Len(rs)
             /\ rs[i] = op.region
             /\ WLt(rs[i - 1].addr, rs[i].addr)
             /\ WLt(rs[i].addr, rs[i + 1].addr)

\* the pages a sequence of regions covers
Cover(rs) ==
    UNION {{r.addr[1] + k : k \in 0 .. ((r.size \div PAGE_SIZE) - 1)} :
              r \in {rs[i] : i \in DOMAIN rs}}

\* no node of the list ends where the next one starts
NoAdjacent(l) ==
    \E rs \in {ListRegions(l)} :
        \A i \in DOMAIN rs :
            i < Len(rs) => end_addr(rs[i]) # rs[i + 1].addr

\* the slots that hold a node are those of the nodes of the list
PoolHoldsList(l) ==
    /\ Len(ListNodes(l)) = l.node_alloc.used_count
    /\ \A i \in 0 .. (l.node_alloc.curr_count - 1) :
          l.node_alloc.mem[i].some
             <=> \E n \in DOMAIN ListNodes(l) : ListNodes(l)[n] = i

\* C15: merge() leaves no two consecutive nodes A, B with A.end_addr() =
\* B.addr (a chain of three or more collapses into one node), keeps the
\* union of the regions, returns every absorbed node to the pool, and a
\* second merge() changes nothing.
C15_MergeCollapses ==
    [][op'.name = "merge" =>
          /\ op'.res = "Ok"
          /\ NoAdjacent(heap')
          /\ Cover(ListRegions(heap')) = Cover(ListRegions(heap))
          /\ PoolHoldsList(heap')
          /\ heap.node_alloc.used_count - heap'.node_alloc.used_count
                = Len(ListNodes(heap)) - Len(ListNodes(heap'))
          /\ HeapList_merge(heap') = [l |-> heap', res |-> "Ok"]]_vars

\* a merge() has collapsed a chain of three nodes into one
C15_Witness ==
    /\ op.name = "merge"
    /\ op.res = "Ok"
    /\ op.count = 3
    /\ ListRegions(heap) = <<HeapPagesAt(0, 3)>>

\* the regions are pairwise apart: no two overlap
Apart(rs) == \A i, j \in DOMAIN rs : i < j => ~Overlap(rs[i], rs[j])

\* C16: with two non-adjacent, non-overlapping regions in the list (added
\* to the empty list in either order), remove of either node returns Ok
\* with the region of that node and leaves exactly the other region in the
\* list, and the slot of the removed node is returned to the pool.
C16_RemoveLeavesOther ==
    [][(/\ op'.name = "remove"
        /\ op'.count = 2
        /\ Len(ListRegions(heap)) = 2
        /\ Apart(ListRegions(heap))
        /\ NoAdjacent(heap)) =>
          /\ op'.res = "Ok"
          /\ op'.region = heap.node_alloc.mem[op'.node].region
          /\ \E rs \in {ListRegions(heap)} :
                \/ rs = <<op'.region>> \o ListRegions(heap')
                \/ rs = ListRegions(heap') \o <<op'.region>>
          /\ Len(ListRegions(heap')) = 1
          /\ PoolHoldsList(heap')
          /\ ~heap'.node_alloc.mem[op'.node].some
          /\ heap'.node_alloc.used_count = 1]_vars

\* the node added second was removed and the node added first is left
C16_Witness ==
    /\ op.name = "remove"
    /\ op.res = "Ok"
    /\ op.count = 2
    /\ op.node = 1
    /\ op.region = HeapPagesAt(0, 1)
    /\ ListRegions(heap) = <<HeapPagesAt(2, 1)>>
    /\ ListNodes(heap) = <<0>>

\* C17: when a region is added with merge = true next to a region that ends
\* where it starts (or starts where it ends), the list ends up with one
\* node for the two, starting at the lower address with the sum of the
\* sizes; regions that are not adjacent stay separate nodes: the nodes are
\* the maximal runs of the regions added.
C17_AddMergesRuns ==
    [][(/\ op'.name = "add"
        /\ op'.res = "Ok"
        /\ op'.merge
        /\ op'.count = heap.node_alloc.used_count
        /\ heap'.node_alloc # heap.node_alloc
        /\ Apart(ListRegions(heap) \o <<op'.region>>)) =>
          /\ Len(ListRegions(heap)) = 1 =>
                \A r1, r2 \in {op'.region, ListRegions(heap)[1]} :
                    end_addr(r1) = r2.addr =>
                        ListRegions(heap')
                            = <<Region_new_sized(r1.addr, r1.size + r2.size)>>
          /\ NoAdjacent(heap')
          /\ Apart(ListRegions(heap'))
          /\ Cover(ListRegions(heap'))
                = Cover(ListRegions(heap) \o <<op'.region>>)
          /\ SumSizes(ListRegions(heap'))
                = SumSizes(ListRegions(heap)) + op'.region.size
          /\ PoolHoldsList(heap')]_vars

\* the region added second lies before the one in the list and the two
\* have become one node, next to a node that stays apart
C17_Witness ==
    /\ op.name = "add"
    /\ op.res = "Ok"
    /\ op.merge
    /\ op.count = 2
    /\ op.region = HeapPagesAt(0, 1)
    /\ ListRegions(heap) = <<HeapPagesAt(0, 2), HeapPagesAt(4, 1)>>

\* C40: after an add that returned Ok(ptr), with or without merge, ptr is
\* a node of the list: its slot is occupied, it is reached from head, and
\* its region holds the region that was added.
C40_AddReturnsLiveNode ==
    (op.name = "add" /\ op.res = "Ok" /\ halted = "no") =>
        /\ \E n \in DOMAIN ListNodes(heap) : ListNodes(heap)[n] = op.node
        /\ op.node \in DOMAIN heap.node_alloc.mem
        /\ heap.node_alloc.mem[op.node].some
        /\ WLe(heap.node_alloc.mem[op.node].region.addr, op.region.addr)
        /\ WLe(end_addr(op.region),
               end_addr(heap.node_alloc.mem[op.node].region))

(***************************************************************************)
(* Specification of one HeapNodeAlloc: alloc and free                      *)
(***************************************************************************)
\* number of slots that fit the region of the pool
PoolSlots == 4

\* the region of the pool: PoolSlots slots and a rest smaller than a slot
PoolRegion ==
    Region_new_sized(KERNEL_END_ADDR, PoolSlots * OPT_NODE_SIZE + 8)

\* what a read of list_idx outside the nodes may give
StaleIdx == 0 .. PoolSlots

\* pointers offered to free beside those of the live nodes: the slots of
\* the region, the address after them, an address inside a slot and the
\* slot before the region
FreeInputs ==
    {WAdd(PoolRegion.addr, i * OPT_NODE_SIZE) : i \in 0 .. PoolSlots}
        \cup {WAdd(PoolRegion.addr, 8),
              WAdd(PoolRegion.addr, -OPT_NODE_SIZE)}

\* the pointer is at one of the curr_count slots of the pool
InSlots(na, ptr) ==
    \E i \in 0 .. (na.curr_count - 1) : ptr = slot_addr(na, i)

InitPool ==
    /\ bm = BootBitMap
    /\ ptmem = BootTables
    /\ heap = HeapNodeAlloc_new(PoolRegion)
    /\ halted = "no"
    /\ op = [name |-> "new", res |-> "Ok", ptr |-> NoAddr, curr |-> 0,
             used |-> 0]
    /\ handed = {}
    /\ live = << >>
    /\ mapped = << >>
    /\ cpu = << >>

\* handed: the pointers of the live nodes
PoolAlloc ==
    /\ halted = "no"
    /\ \E g \in Garbage :
         \E r \in {HeapNodeAlloc_alloc(heap, [bm |-> bm, pm |-> ptmem], g)} :
            /\ heap' = r.na
            /\ bm' = r.bm
            /\ ptmem' = r.pm
            /\ op' = [name |-> "alloc", res |-> r.res,
                      ptr |-> IF r.res = "Ok" THEN slot_addr(heap, r.ptr)
                              ELSE NoAddr,
                      curr |-> heap.curr_count, used |-> heap.used_count]
            /\ handed' = IF r.res = "Ok"
                         THEN handed \cup {slot_addr(heap, r.ptr)}
                         ELSE handed
            /\ halted' = IF r.res \in {"Ok", "Err"} THEN halted ELSE "panic"
    /\ UNCHANGED <<live, mapped, cpu>>

\* free of a live node
PoolFree ==
    /\ halted = "no"
    /\ \E ptr \in handed, stale \in StaleIdx, checked \in BOOLEAN :
         \E r \in {HeapNodeAlloc_free_at(heap, ptr, stale, checked)} :
            /\ heap' = r.na
            /\ op' = [name |-> "free", res |-> r.res, ptr |-> ptr,
                      curr |-> heap.curr_count, used |-> heap.used_count]
            /\ handed' = handed \ {ptr}
            /\ halted' = IF r.res = "Ok" THEN halted ELSE "panic"
    /\ UNCHANGED <<bm, ptmem, live, mapped, cpu>>

\* free of a pointer that is not the pointer of a live node; the pool is
\* not followed further once such a free has not returned Err
PoolFreeAny ==
    /\ halted = "no"
    /\ \E ptr \in FreeInputs \ handed, stale \in StaleIdx,
          checked \in BOOLEAN :
         \E r \in {HeapNodeAlloc_free_at(heap, ptr, stale, checked)} :
            /\ heap' = r.na
            /\ op' = [name |-> "free", res |-> r.res, ptr |-> ptr,
                      curr |-> heap.curr_count, used |-> heap.used_count]
            /\ halted' = CASE r.res = "Err" -> halted
                            [] r.res = "Ok" -> "misuse"
                            [] OTHER -> "panic"
    /\ UNCHANGED <<bm, ptmem, handed, live, mapped, cpu>>

NextPool == PoolAlloc \/ PoolFree \/ PoolFreeAny

SpecPool == InitPool /\ [][NextPool]_vars

\* the step is an alloc() on a pool that only saw frees of live nodes
PoolAllocStep ==
    /\ halted = "no"
    /\ op'.name = "alloc"
    /\ op'.curr = heap.curr_count
    /\ op'.used = heap.used_count
    /\ (heap' # heap \/ op'.res = "Err")

\* the slots below the high-water mark that hold no live node
FreeSlots == {i \in 0 .. (heap.curr_count - 1) : slot_addr(heap, i) \notin handed}

\* C18: when a node other than the last was freed, the next alloc() returns
\* the address of the freed node: the lowest free slot below the high-water
\* mark is reused and the mark does not grow.
C18_SlotReused ==
    [][(PoolAllocStep /\ FreeSlots # {}) =>
          /\ op'.res = "Ok"
          /\ \E i \in FreeSlots :
                /\ \A j \in FreeSlots : i <= j
                /\ op'.ptr = slot_addr(heap, i)
          /\ heap'.curr_count = heap.curr_count]_vars

\* three nodes were allocated, the second was freed, and alloc() has
\* returned the address of the second slot
C18_Witness ==
    /\ halted = "no"
    /\ op.name = "alloc"
    /\ op.res = "Ok"
    /\ op.curr = 3
    /\ op.used = 2
    /\ op.ptr = slot_addr(heap, 1)
    /\ heap.curr_count = 3

\* the slot of the pool at an address
SlotAt(na, ptr) == WSub(ptr, na.start_addr) \div OPT_NODE_SIZE

\* C19: alloc() returns Err exactly when all max_count slots are in use,
\* and then leaves the pool unchanged; otherwise it returns a
\* default-initialised node (empty region, no next node, list_idx naming
\* its slot) in a slot inside the metadata region that no other live node
\* occupies.
C19_AllocErrIffFull ==
    [][PoolAllocStep =>
          /\ op'.res \in {"Ok", "Err"}
          /\ op'.res = "Err"
                <=> Cardinality(handed) = PoolRegion.size \div OPT_NODE_SIZE
          /\ op'.res = "Err" => (heap' = heap /\ handed' = handed)
          /\ op'.res = "Ok" =>
                /\ op'.ptr \notin handed
                /\ WLe(PoolRegion.addr, op'.ptr)
                /\ WLe(WAdd(op'.ptr, OPT_NODE_SIZE), end_addr(PoolRegion))
                /\ InSlots(heap', op'.ptr)
                /\ heap'.mem[SlotAt(heap, op'.ptr)]
                      = [HeapNode_default EXCEPT
                            !.list_idx = SlotAt(heap, op'.ptr)]
                /\ \A i \in 0 .. (heap.curr_count - 1) :
                      slot_addr(heap, i) \in handed =>
                          heap'.mem[i] = heap.mem[i]]_vars

\* alloc() has returned Err on the pool with every slot in use
C19_Witness ==
    /\ halted = "no"
    /\ op.name = "alloc"
    /\ op.res = "Err"
    /\ op.used = PoolSlots
    /\ Cardinality(handed) = PoolSlots

\* C20: free(ptr) returns Err and changes nothing whenever ptr does not lie
\* within the managed slot array (curr_count slots from start_addr) or is
\* not slot-aligned; only a pointer to one of those slots is ever cleared.
C20_FreeChecksPointer ==
    [][(halted = "no" /\ op'.name = "free") =>
          /\ ~InSlots(heap, op'.ptr) => (op'.res = "Err" /\ heap' = heap)
          /\ heap' # heap =>
                /\ InSlots(heap, op'.ptr)
                /\ \A i \in 0 .. (heap.curr_count - 1) :
                      (heap.mem[i].some /\ i # SlotAt(heap, op'.ptr)) =>
                          (i < heap'.curr_count /\ heap'.mem[i] = heap.mem[i])]_vars

\* the slots of the pool that hold a node
Occupied(na) == {i \in DOMAIN na.mem : na.mem[i].some}

\* C33: after any sequence of alloc() calls and free() calls that return Ok,
\* used_count is the number of occupied slots, every occupied slot has an
\* index below curr_count, and used_count <= curr_count <= max_count; len()
\* is 0 once every allocated node has been freed.
C33_CountsMatchSlots ==
    halted \in {"no", "misuse"} =>
        /\ heap.used_count = Cardinality(Occupied(heap))
        /\ \A i \in Occupied(heap) : i < heap.curr_count
        /\ heap.used_count <= heap.curr_count
        /\ heap.curr_count <= heap.max_count
        /\ Occupied(heap) = {} => heap.used_count = 0

(***************************************************************************)
(* The allocators on the one processor, step by step                       *)
(*                                                                         *)
(* cpu holds the interrupt flag, the states of HEAP_ALLOC_MUTEX and of     *)
(* FRAME_ALLOCATOR_MUTEX, CURR_TICK, the contexts of the exited processes  *)
(* and the stack of activations: the calls of kmalloc and kfree and the    *)
(* handlers of the timer interrupt and of the page fault.  The activation  *)
(* on top of the stack runs; one below goes on when those above it have    *)
(* returned.  A step stands for instructions that run without an           *)
(* interrupt between them.                                                 *)
(***************************************************************************)
UNLOCKED == 0
LOCKED == 1
MAX_TICKS == 5

\* number of kmalloc calls of the tasks in a run
MaxTaskCalls == 2

\* an activation at its first step
Frame(fn, pc, ptr, size, saved_if) ==
    [fn |-> fn, pc |-> pc, ptr |-> ptr, size |-> size, page_num |-> 0,
     region |-> NoRegion, after |-> NoRegion, offset |-> 0,
     faddr |-> W(0, 0), locked |-> FALSE, found |-> FALSE,
     saved_if |-> saved_if]

Top == cpu.stack[Len(cpu.stack)]

\* the activation on top is one of fns and stands at one of pcs
At(fns, pcs) ==
    /\ halted = "no"
    /\ cpu.stack # << >>
    /\ Top.fn \in fns
    /\ Top.pc \in pcs

\* the activation on top goes on as f
Goto(f) == [cpu EXCEPT !.stack[Len(cpu.stack)] = f]

\* the page of the memset of HeapNodeAlloc::alloc that does not translate,
\* NoAddr when the memset does not run or its pages are mapped
fault_page(na, pm, g) ==
    IF na.used_count = na.max_count \/ na.curr_count # na.used_count
    THEN NoAddr
    ELSE IF Walk(pm, PageOf(slot_addr(na, na.curr_count)), g).res # "Ok"
    THEN PageOf(slot_addr(na, na.curr_count))
    ELSE IF Walk(pm, PageOf(WAdd(slot_addr(na, na.curr_count),
                                 OPT_NODE_SIZE - 1)), g).res # "Ok"
    THEN PageOf(WAdd(slot_addr(na, na.curr_count), OPT_NODE_SIZE - 1))
    ELSE NoAddr

\* the list the add of the step is made to
ListOf(pc) == IF pc = "add_used" THEN heap.used_list ELSE heap.free_list

\* the page the turn of map_range, or the page fault, maps
MapPage(f) == WAdd(f.ptr, f.page_num * PAGE_SIZE)

\* the page the turn of unmap_range unmaps
UnmapPage(f) == WAdd(f.region.addr, f.page_num * PAGE_SIZE)

InitConc ==
    /\ \E g \in Garbage :
         \E r \in {BootHeap(g)} :
            /\ bm = r.bm
            /\ ptmem = r.pm
            /\ heap = r.h
    /\ halted = "no"
    /\ op = [name |-> "init", res |-> "Ok", ptr |-> W(0, 0), size |-> 0,
             calls |-> 0]
    /\ handed = {}
    /\ live = << >>
    /\ mapped = << >>
    /\ cpu = [int_enabled |-> TRUE, heap_mutex |-> UNLOCKED,
              frame_mutex |-> UNLOCKED, tick |-> 0, exited |-> {},
              stack |-> << >>]

\* a task calls kmalloc
CallKMalloc ==
    /\ halted = "no"
    /\ cpu.stack = << >>
    /\ op.calls < MaxTaskCalls
    /\ \E size \in HeapSizes :
         cpu' = [cpu EXCEPT
                    !.stack = <<Frame("kmalloc", "lock", W(0, 0), size,
                                      TRUE)>>]
    /\ op' = [op EXCEPT !.calls = @ + 1]
    /\ UNCHANGED <<bm, ptmem, heap, halted, handed, live, mapped>>

\* a task calls kfree on a pointer kmalloc returned to it
CallKFree ==
    /\ halted = "no"
    /\ cpu.stack = << >>
    /\ \E k \in DOMAIN live :
         /\ cpu' = [cpu EXCEPT
                      !.stack = <<Frame("kfree", "lock", k[1], k[2], TRUE)>>]
         /\ live' = DropLive(live, k)
    /\ UNCHANGED <<bm, ptmem, heap, halted, op, handed, mapped>>

\* the process whose context is the allocation k exits: the scheduler
\* frees the context when it next takes the process from the list
ProcExit ==
    /\ halted = "no"
    /\ cpu.stack = << >>
    /\ \E k \in DOMAIN live :
         /\ cpu' = [cpu EXCEPT !.exited = @ \cup {k[1]}]
         /\ live' = DropLive(live, k)
    /\ UNCHANGED <<bm, ptmem, heap, halted, op, handed, mapped>>

\* the timer interrupt, taken when the interrupts are enabled and no timer
\* interrupt is in service; its gate is an interrupt gate
TimerInterrupt ==
    /\ halted = "no"
    /\ cpu.int_enabled
    /\ \A i \in DOMAIN cpu.stack : cpu.stack[i].fn # "timer"
    /\ cpu' = [cpu EXCEPT
                  !.int_enabled = FALSE,
                  !.stack = Append(@, Frame("timer", "schedule", W(0, 0), 0,
                                            TRUE))]
    /\ UNCHANGED <<bm, ptmem, heap, halted, op, handed, live, mapped>>

\* schedule: the tick, or the exited process taken from the list and its
\* context freed, after which schedule runs again
Schedule ==
    /\ At({"timer"}, {"schedule"})
    /\ IF cpu.tick < MAX_TICKS
       THEN cpu' = [cpu EXCEPT !.tick = @ + 1,
                               !.stack[Len(cpu.stack)].pc = "ret"]
       ELSE IF cpu.exited = {}
       THEN cpu' = [cpu EXCEPT !.tick = 0,
                               !.stack[Len(cpu.stack)].pc = "ret"]
       ELSE \E p \in cpu.exited :
              cpu' = [cpu EXCEPT
                        !.tick = 0,
                        !.exited = @ \ {p},
                        !.stack = Append(@, Frame("kfree", "lock", p, 0,
                                                  FALSE))]
    /\ UNCHANGED <<bm, ptmem, heap, halted, op, handed, live, mapped>>

\* HEAP_ALLOC_MUTEX.lock(): the interrupts disabled, then the spin lock,
\* which does not return while the state is LOCKED
HeapLock ==
    /\ At({"kmalloc", "kfree"}, {"lock"})
    /\ cpu' = IF cpu.heap_mutex = UNLOCKED
              THEN [cpu EXCEPT
                      !.int_enabled = FALSE,
                      !.heap_mutex = LOCKED,
                      !.stack[Len(cpu.stack)] =
                          [@ EXCEPT !.pc = "search", !.locked = TRUE]]
              ELSE [cpu EXCEPT
                      !.int_enabled = FALSE,
                      !.stack[Len(cpu.stack)].pc = "spin"]
    /\ UNCHANGED <<bm, ptmem, heap, halted, op, handed, live, mapped>>

\* internal_alloc: the loop over the free list and the removal of the
\* region that fits
AllocSearch ==
    /\ At({"kmalloc"}, {"search"})
    /\ \E aligned_size \in {align_higher(Top.size, PAGE_SIZE)} :
       \E node_ptr \in {first_fit(heap.free_list, aligned_size, PAGE_SIZE)} :
         IF node_ptr = NoIdx
         THEN /\ cpu' = Goto([Top EXCEPT !.pc = "unlock", !.ptr = W(0, 0)])
              /\ UNCHANGED <<heap, halted>>
         ELSE \E rm \in {HeapList_remove(heap.free_list, node_ptr)} :
                /\ heap' = [heap EXCEPT !.free_list = rm.l]
                /\ halted' = IF rm.res = "Ok" THEN halted ELSE "panic"
                /\ cpu' = Goto([Top EXCEPT
                        !.region = Region_new_sized(rm.region.addr,
                                                    aligned_size),
                        !.after = Region_new(WAdd(rm.region.addr,
                                                  aligned_size),
                                             end_addr(rm.region)),
                        !.offset = can_fit(rm.region, aligned_size,
                                           PAGE_SIZE).offset,
                        !.pc = IF end_addr(rm.region)
                                    = WAdd(rm.region.addr, aligned_size)
                               THEN "add_used" ELSE "add_after"])
    /\ UNCHANGED <<bm, ptmem, op, handed, live, mapped>>

\* internal_dealloc: the loop over the used list and the removal of the
\* region that starts at the pointer
FreeSearch ==
    /\ At({"kfree"}, {"search"})
    /\ \E node_ptr \in {first_at(heap.used_list,
                                 align_lower_w(Top.ptr, PAGE_SIZE))} :
         IF node_ptr = NoIdx
         THEN /\ cpu' = Goto([Top EXCEPT !.pc = "unlock"])
              /\ UNCHANGED <<heap, halted>>
         ELSE \E rm \in {HeapList_remove(heap.used_list, node_ptr)} :
                /\ heap' = [heap EXCEPT !.used_list = rm.l]
                /\ halted' = IF rm.res = "Ok" THEN halted ELSE "panic"
                /\ cpu' = Goto([Top EXCEPT !.region = rm.region,
                                           !.after = rm.region,
                                           !.found = TRUE,
                                           !.pc = "add_free"])
    /\ UNCHANGED <<bm, ptmem, op, handed, live, mapped>>

\* the memset of a new slot of the list touches a page that is not mapped:
\* the page fault, whose gate is a trap gate
PageFaultRaise ==
    /\ At({"kmalloc", "kfree"}, {"add_after", "add_used", "add_free"})
    /\ \E g \in Garbage :
         \E a \in {fault_page(ListOf(Top.pc).node_alloc, ptmem, g)}
                    \ {NoAddr} :
            cpu' = [cpu EXCEPT
                      !.stack = Append(@, Frame("pf", "pf", a, 0,
                                                cpu.int_enabled))]
    /\ UNCHANGED <<bm, ptmem, heap, halted, op, handed, live, mapped>>

\* page_fault: the address test, before vmm::map
PageFaultHandle ==
    /\ At({"pf"}, {"pf"})
    /\ IF Mappable(Top.ptr)
       THEN cpu' = Goto([Top EXCEPT !.pc = "alloc_lock"]) /\ halted' = halted
       ELSE halted' = "panic" /\ cpu' = cpu
    /\ UNCHANGED <<bm, ptmem, heap, op, handed, live, mapped>>

\* HeapList::add of the after region, of the allocated region, or of the
\* region freed
ListAdd ==
    /\ At({"kmalloc", "kfree"}, {"add_after", "add_used", "add_free"})
    /\ \E g \in Garbage :
         /\ fault_page(ListOf(Top.pc).node_alloc, ptmem, g) = NoAddr
         /\ \E a \in {HeapList_add(ListOf(Top.pc), [bm |-> bm, pm |-> ptmem],
                          IF Top.pc = "add_used" THEN Top.region
                          ELSE Top.after,
                          Top.pc # "add_used", g)} :
              /\ heap' = IF Top.pc = "add_used"
                         THEN [heap EXCEPT !.used_list = a.l]
                         ELSE [heap EXCEPT !.free_list = a.l]
              /\ bm' = a.bm
              /\ ptmem' = a.pm
              /\ halted' = IF a.res = "Ok" THEN halted ELSE "panic"
              /\ cpu' = Goto(
                    CASE Top.pc = "add_after" ->
                            [Top EXCEPT !.pc = "add_used"]
                      [] Top.pc = "add_used" ->
                            [Top EXCEPT !.pc = "unlock",
                                        !.ptr = WAdd(Top.region.addr,
                                                     Top.offset)]
                      [] OTHER ->
                            [Top EXCEPT !.pc = "unmap", !.page_num = 0])
    /\ UNCHANGED <<op, handed, live, mapped>>

\* the counter of allocations and HEAP_ALLOC_MUTEX.unlock(): the state
\* UNLOCKED, the interrupts enabled
HeapUnlock ==
    /\ At({"kmalloc", "kfree"}, {"unlock"})
    /\ heap' = [heap EXCEPT
                  !.num_allocs = IF Top.fn = "kmalloc" THEN @ + 1
                                 ELSE IF Top.found THEN @ - 1 ELSE @]
    /\ cpu' = [cpu EXCEPT
                  !.heap_mutex = UNLOCKED,
                  !.int_enabled = TRUE,
                  !.stack[Len(cpu.stack)] =
                      [@ EXCEPT !.locked = FALSE,
                                !.page_num = 0,
                                !.pc = IF Top.fn = "kmalloc"
                                       THEN "alloc_lock" ELSE "ret"]]
    /\ UNCHANGED <<bm, ptmem, halted, op, handed, live, mapped>>

\* FRAME_ALLOCATOR_MUTEX.lock() of frame_alloc::alloc and of dealloc
FrameLock ==
    /\ At({"kmalloc", "kfree", "pf"}, {"alloc_lock", "dealloc_lock"})
    /\ cpu' = IF cpu.frame_mutex = UNLOCKED
              THEN [cpu EXCEPT
                      !.int_enabled = FALSE,
                      !.frame_mutex = LOCKED,
                      !.stack[Len(cpu.stack)].pc =
                          IF @ = "alloc_lock" THEN "alloc" ELSE "dealloc"]
              ELSE [cpu EXCEPT
                      !.int_enabled = FALSE,
                      !.stack[Len(cpu.stack)].pc = "spin"]
    /\ UNCHANGED <<bm, ptmem, heap, halted, op, handed, live, mapped>>

\* frame_alloc::alloc in vmm::map: the frame taken and the mutex unlocked
LockedAlloc ==
    /\ At({"kmalloc", "pf"}, {"alloc"})
    /\ \E a \in {frame_alloc_alloc(bm)} :
         /\ bm' = a.bm
         /\ halted' = IF a.res = "Ok" THEN halted ELSE "panic"
         /\ cpu' = [cpu EXCEPT
                      !.frame_mutex = UNLOCKED,
                      !.int_enabled = TRUE,
                      !.stack[Len(cpu.stack)] =
                          [@ EXCEPT !.pc = "tables", !.faddr = a.addr]]
    /\ UNCHANGED <<ptmem, heap, op, handed, live, mapped>>

\* PageTables::map up to the page table: the tables that are missing made,
\* each in a frame of frame_alloc::alloc, whose unlock enables the
\* interrupts
MapTables ==
    /\ At({"kmalloc", "pf"}, {"tables"})
    /\ \E g \in Garbage :
         \E r \in {make_tables([bm |-> bm, pm |-> ptmem], MapPage(Top),
                               FALSE, TRUE, FALSE, g)} :
            /\ bm' = r.bm
            /\ ptmem' = r.pm
            /\ halted' = IF r.res = "Ok" THEN halted ELSE "panic"
            /\ cpu' = [cpu EXCEPT
                         !.int_enabled = @ \/ r.bm # bm,
                         !.stack[Len(cpu.stack)].pc = "leaf"]
    /\ UNCHANGED <<heap, op, handed, live, mapped>>

\* PageTables::map: the entry of the page written; then the next turn of
\* map_range, or the return
MapLeaf ==
    /\ At({"kmalloc", "pf"}, {"leaf"})
    /\ \E g \in Garbage :
         \E r \in {set_leaf([bm |-> bm, pm |-> ptmem, res |-> "Ok"],
                            MapPage(Top), Top.faddr, FALSE, TRUE, FALSE,
                            g)} :
            /\ ptmem' = r.pm
            /\ halted' = IF r.res = "Ok" THEN halted ELSE "panic"
            /\ cpu' = Goto(
                  IF /\ Top.fn = "kmalloc"
                     /\ Top.page_num + 1
                          < get_num_pages(align_higher(Top.size, PAGE_SIZE))
                  THEN [Top EXCEPT !.pc = "alloc_lock", !.page_num = @ + 1]
                  ELSE [Top EXCEPT !.pc = "ret"])
    /\ UNCHANGED <<bm, heap, op, handed, live, mapped>>

\* vmm::unmap: virt_to_phys, then frame_alloc::dealloc up to its lock
UnmapLookup ==
    /\ At({"kfree"}, {"unmap"})
    /\ \E g \in Garbage :
         \E v \in {PageTables_virt_to_phys(ptmem, UnmapPage(Top), g)} :
            IF v.res # "Ok"
            THEN halted' = "panic" /\ cpu' = cpu
            ELSE /\ halted' = halted
                 /\ cpu' = Goto([Top EXCEPT
                        !.faddr = v.addr,
                        !.pc = IF addr_to_frame(bm, v.addr) = NoIdx
                               THEN "unmap_leaf" ELSE "dealloc_lock"])
    /\ UNCHANGED <<bm, ptmem, heap, op, handed, live, mapped>>

\* frame_alloc::dealloc: the frame given back and the mutex unlocked
LockedDealloc ==
    /\ At({"kfree"}, {"dealloc"})
    /\ \E d \in {frame_alloc_dealloc(bm, Top.faddr)} :
         /\ bm' = d.bm
         /\ halted' = IF d.res = "Panic" THEN "panic" ELSE halted
         /\ cpu' = [cpu EXCEPT
                      !.frame_mutex = UNLOCKED,
                      !.int_enabled = TRUE,
                      !.stack[Len(cpu.stack)].pc = "unmap_leaf"]
    /\ UNCHANGED <<ptmem, heap, op, handed, live, mapped>>

\* PageTables::unmap; then the next turn of unmap_range, or the unlock
UnmapLeaf ==
    /\ At({"kfree"}, {"unmap_leaf"})
    /\ \E g \in Garbage :
         \E u \in {PageTables_unmap(ptmem, UnmapPage(Top), g)} :
            /\ ptmem' = u.pm
            /\ halted' = IF u.res = "Ok" THEN halted ELSE "panic"
            /\ cpu' = Goto(
                  IF Top.page_num + 1 < get_num_pages(Top.region.size)
                  THEN [Top EXCEPT !.pc = "unmap", !.page_num = @ + 1]
                  ELSE [Top EXCEPT !.pc = "unlock"])
    /\ UNCHANGED <<bm, heap, op, handed, live, mapped>>

\* the return of a call, or of a handler to the code it interrupted, with
\* the interrupt flag that code had
Return ==
    /\ At({"kmalloc", "kfree", "pf", "timer"}, {"ret"})
    /\ cpu' = [cpu EXCEPT
                  !.stack = SubSeq(@, 1, Len(@) - 1),
                  !.int_enabled = IF Top.fn \in {"pf", "timer"}
                                  THEN Top.saved_if ELSE @]
    /\ op' = IF Top.fn \in {"kmalloc", "kfree"}
             THEN [name |-> Top.fn, res |-> "Ok", ptr |-> Top.ptr,
                   size |-> Top.size, calls |-> op.calls]
             ELSE op
    /\ live' = IF Top.fn = "kmalloc" /\ Top.ptr # W(0, 0)
               THEN AddLive(live, <<Top.ptr,
                                    align_higher(Top.size, PAGE_SIZE)>>)
               ELSE live
    /\ UNCHANGED <<bm, ptmem, heap, halted, handed, mapped>>

NextConc ==
    \/ CallKMalloc \/ CallKFree \/ ProcExit \/ TimerInterrupt \/ Schedule
    \/ HeapLock \/ AllocSearch \/ FreeSearch \/ PageFaultRaise
    \/ PageFaultHandle \/ ListAdd \/ HeapUnlock \/ FrameLock \/ LockedAlloc
    \/ MapTables \/ MapLeaf \/ UnmapLookup \/ LockedDealloc \/ UnmapLeaf
    \/ Return

SpecConc == InitConc /\ [][NextConc]_vars

\* the activations under the one that runs
Below == 1 .. (Len(cpu.stack) - 1)

\* C5: whenever HEAP_ALLOC_MUTEX or FRAME_ALLOCATOR_MUTEX is held the
\* interrupts are disabled, one mutex taken and released while the other
\* is held included, and no activation spins on a mutex held by the code
\* it interrupted.
C5_LocksMaskInterrupts ==
    /\ (cpu.heap_mutex = LOCKED \/ cpu.frame_mutex = LOCKED)
            => ~cpu.int_enabled
    /\ \A i \in DOMAIN cpu.stack : cpu.stack[i].pc # "spin"

\* C6: the frame bitmap, the page tables and the two lists of the heap have
\* one writer at a time: no step writes one of them while an activation
\* under the one that runs is in the middle of a mutation of the same
\* structure.
C6_OneWriter ==
    [][/\ bm' # bm =>
            \A i \in Below : cpu.stack[i].pc \notin {"alloc", "dealloc"}
       /\ ptmem' # ptmem =>
            \A i \in Below : cpu.stack[i].pc # "leaf"
       /\ (heap.free_list # heap'.free_list
                \/ heap.used_list # heap'.used_list) =>
            \A i \in Below : ~cpu.stack[i].locked]_vars

\* C7: the map_range of kmalloc and the unmap_range of kfree run after the
\* heap lock is released: no call of kmalloc or kfree is at a step of
\* vmm::map or vmm::unmap while it holds HEAP_ALLOC_MUTEX.
C7_VmmOutsideHeapLock ==
    \A i \in DOMAIN cpu.stack :
        cpu.stack[i].pc \in {"alloc_lock", "alloc", "tables", "leaf",
                             "unmap", "dealloc_lock", "dealloc",
                             "unmap_leaf"}
            /\ cpu.stack[i].fn \in {"kmalloc", "kfree"}
        => ~cpu.stack[i].locked

\* C8: no page fault is raised while HEAP_ALLOC_MUTEX is held.
C8_NoFaultUnderHeapLock ==
    \A i \in DOMAIN cpu.stack :
        cpu.stack[i].fn = "pf" => cpu.heap_mutex = UNLOCKED

\* C29: in every reachable state, the states between the writes of map,
\* make_table_if_not_present and vmm::unmap included, every present
\* page-table entry that names a frame of the frame allocator names one
\* that is marked used in the bitmap, and no entry is present with the
\* address zero, but the boot entry of the identity-mapped page 0.
C29_PresentEntryOwnsFrame ==
    \A f \in DOMAIN ptmem : \A i \in (DOMAIN ptmem[f]) \ {JUNK} :
        ptmem[f][i].present =>
            /\ (f # BootPT \/ i # 0) => ptmem[f][i].addr # 0
            /\ InFrames(bm, get_addr(ptmem[f][i]))
                => ~IsFree(bm, addr_to_frame(bm, get_addr(ptmem[f][i])))

(***************************************************************************)
(* Specification of mem/align.rs: align_higher and align_lower on the      *)
(* addresses at both ends of the machine word                              *)
(***************************************************************************)
\* alignments: powers of two below, at and above the page size
Alignments == {1, 2, 8, 64, PAGE_SIZE, 2 * PAGE_SIZE, NUM_ENTRIES * PAGE_SIZE}

\* number of pages at each end of the word from which addresses are taken
EndPages == 3

\* addresses: the first pages of the word and its last pages (page -1 ends
\* at usize::MAX), each at several offsets
AlignAddrs ==
    {W(pg, off) : pg \in (-EndPages .. EndPages - 1) \cup {NUM_ENTRIES - 1},
                  off \in {0, 1, 8, PAGE_SIZE - 8, PAGE_SIZE - 1}}

\* addr + n leaves the machine word: the sum passes usize::MAX
AddOverflows(w, n) == w[1] < 0 /\ WAdd(w, n)[1] >= 0

\* addr is a multiple of the alignment
IsAligned(w, alignment) ==
    IF alignment <= PAGE_SIZE
    THEN w[2] % alignment = 0
    ELSE w[2] = 0 /\ w[1] % (alignment \div PAGE_SIZE) = 0

InitAlign ==
    /\ bm = BootBitMap
    /\ ptmem = BootTables
    /\ heap = << >>
    /\ halted = "no"
    /\ \E x \in AlignAddrs, n \in Alignments :
         op = [name |-> "init", addr |-> x, alignment |-> n, res |-> x]
    /\ handed = {}
    /\ live = << >>
    /\ mapped = [frame_of |-> << >>, window |-> FALSE]
    /\ cpu = << >>

\* align_higher(a, alignment), a being the address drawn or the result of the
\* call before; the sum addr + (alignment - 1) that leaves the word wraps in
\* a build without overflow checks and panics in a build with them
AlignHigher ==
    /\ halted = "no"
    /\ \E a \in {op.addr, op.res}, checks \in BOOLEAN :
         IF checks /\ AddOverflows(a, op.alignment - 1)
         THEN /\ halted' = "attempt to add with overflow"
              /\ op' = [op EXCEPT !.name = "align_higher", !.addr = a,
                                  !.res = NoAddr]
         ELSE /\ halted' = halted
              /\ op' = [op EXCEPT !.name = "align_higher", !.addr = a,
                                  !.res = align_higher_w(a, op.alignment)]
    /\ UNCHANGED <<bm, ptmem, heap, handed, live, mapped, cpu>>

\* align_lower(a, alignment)
AlignLower ==
    /\ halted = "no"
    /\ \E a \in {op.addr, op.res} :
         op' = [op EXCEPT !.name = "align_lower", !.addr = a,
                          !.res = align_lower_w(a, op.alignment)]
    /\ UNCHANGED <<bm, ptmem, heap, halted, handed, live, mapped, cpu>>

NextAlign == AlignHigher \/ AlignLower

SpecAlign == InitAlign /\ [][NextAlign]_vars

\* C28: for every address x of the machine word and every power of two n,
\* align_lower(x, n) <= x <= align_higher(x, n), both results are multiples
\* of n, and align_higher(align_lower(x, n), n) = align_lower(x, n).
C28_AlignBounds ==
    /\ op.name = "align_higher"
        => /\ halted = "no"
           /\ WLe(op.addr, op.res)
           /\ IsAligned(op.res, op.alignment)
    /\ op.name = "align_lower"
        => /\ WLe(op.res, op.addr)
           /\ IsAligned(op.res, op.alignment)
           /\ align_higher_w(op.res, op.alignment) = op.res

(***************************************************************************)
(* Specification of HeapAlloc::can_fit over free regions and layouts       *)
(***************************************************************************)
\* free regions: at the start of the heap, inside its first page and at its
\* second page, of sizes around one and two pages
FitRegions ==
    {Region_new_sized(WAdd(HeapRegion.addr, d), n) :
        d \in {0, 8, PAGE_SIZE},
        n \in {0, 100, PAGE_SIZE - 1, PAGE_SIZE, PAGE_SIZE + 8,
               2 * PAGE_SIZE, 3 * PAGE_SIZE - 1}}

\* sizes and alignments of the layouts
FitSizes == {0, 100, PAGE_SIZE, 2 * PAGE_SIZE}
FitAligns == {1, 8, PAGE_SIZE, 2 * PAGE_SIZE}

InitFit ==
    /\ bm = BootBitMap
    /\ ptmem = BootTables
    /\ heap = << >>
    /\ halted = "no"
    /\ \E r \in FitRegions :
         op = [name |-> "init", region |-> r, size |-> 0, align |-> 1,
               res |-> "Ok", offset |-> 0]
    /\ handed = {}
    /\ live = << >>
    /\ mapped = << >>
    /\ cpu = << >>

\* can_fit(&op.region, &layout)
CanFit ==
    /\ \E size \in FitSizes, align \in FitAligns :
         \E r \in {can_fit(op.region, size, align)} :
            op' = [name |-> "can_fit", region |-> op.region, size |-> size,
                   align |-> align, res |-> r.res, offset |-> r.offset]
    /\ UNCHANGED <<bm, ptmem, heap, halted, handed, live, mapped, cpu>>

NextFit == CanFit

SpecFit == InitFit /\ [][NextFit]_vars

\* the span of the layout, put at the aligned start, lies inside the region
SpanInside(region, size, align) ==
    /\ WLe(region.addr, align_higher_w(region.addr, align))
    /\ WLe(WAdd(align_higher_w(region.addr, align), size), end_addr(region))

\* C31: can_fit(free_region, layout) returns Ok(offset) exactly when the
\* span [aligned_start, aligned_start + size) lies inside the free region,
\* the span that ends at the end address of the region included, and offset
\* is aligned_start - free_region.addr.
C31_CanFitExact ==
    op.name = "can_fit" =>
        /\ op.res = "Ok" <=> SpanInside(op.region, op.size, op.align)
        /\ op.res = "Ok" =>
              op.offset = WSub(align_higher_w(op.region.addr, op.align),
                               op.region.addr)

(***************************************************************************)
(* proc/scheduler.rs                                                       *)
(*                                                                         *)
(* The scheduler is the record of its statics: procs is PROCESSES (each    *)
(* PCB with its pid, its status and whether args is non-null), curr is     *)
(* CURR_PROCESS (IdlePid for None), tick is CURR_TICK, next_pid is         *)
(* CURR_PID, context is the process whose context lies in the interrupt    *)
(* frame (the one that runs after the return), and freed counts the calls  *)
(* of kfree for the context and the arguments of each process.             *)
(***************************************************************************)
\* pid of IDLE_PROCESS; as the value of curr it stands for None
IdlePid == 0

\* the context of the code that runs before the first switch
BootContext == -1

\* one more call of kfree for each pointer of the set
Freed(freed, ptrs) ==
    [k \in (DOMAIN freed) \cup ptrs |->
        (IF k \in DOMAIN freed THEN freed[k] ELSE 0)
            + (IF k \in ptrs THEN 1 ELSE 0)]

\* the pointers of a PCB that the Exited branch gives to kfree
FreedOf(pcb) ==
    {<<"context", pcb.pid>>}
        \cup (IF pcb.args THEN {<<"args", pcb.pid>>} ELSE {})

\* schedule with the process taken from the list put back at its front
RECURSIVE schedule_front(_)
schedule_front(s) ==
    IF s.tick < MAX_TICKS
    THEN [s EXCEPT !.tick = @ + 1]
    ELSE IF Len(s.procs) # 0
    THEN IF Head(s.procs).status = "Started"
         THEN [s EXCEPT !.tick = 0,
                        !.context = Head(s.procs).pid,
                        !.curr = Head(s.procs).pid]
         ELSE schedule_front([s EXCEPT
                        !.tick = 0,
                        !.procs = Tail(@),
                        !.freed = Freed(@, FreedOf(Head(s.procs))),
                        !.curr = IdlePid])
    ELSE [s EXCEPT !.tick = 0, !.context = IdlePid]

\* schedule(context): the tick; or the head of the list taken, and for a
\* Started process its context installed and the process put at the back,
\* for an Exited one its context and arguments freed and schedule called
\* again; or the idle context installed when the list is empty
RECURSIVE schedule(_)
schedule(s) ==
    IF s.tick < MAX_TICKS
    THEN [s EXCEPT !.tick = @ + 1]
    ELSE IF Len(s.procs) # 0
    THEN IF Head(s.procs).status = "Started"
         THEN [s EXCEPT !.tick = 0,
                        !.context = Head(s.procs).pid,
                        !.curr = Head(s.procs).pid,
                        !.procs = Append(Tail(@), Head(@))]
         ELSE schedule([s EXCEPT
                        !.tick = 0,
                        !.procs = Tail(@),
                        !.freed = Freed(@, FreedOf(Head(s.procs))),
                        !.curr = IdlePid])
    ELSE [s EXCEPT !.tick = 0, !.context = IdlePid]

\* exit(): the status of the current process, and CURR_PROCESS = None
exit(s) ==
    [s EXCEPT
        !.procs = [i \in DOMAIN @ |->
                     IF @[i].pid = s.curr
                     THEN [@[i] EXCEPT !.status = "Exited"] ELSE @[i]],
        !.curr = IdlePid]

(***************************************************************************)
(* Specification of the scheduler: the timer interrupt, spawn from the     *)
(* keyboard handler step by step, and exit                                 *)
(*                                                                         *)
(* cpu is the scheduler with the interrupt flag and pc, the place of the   *)
(* keyboard handler inside spawn: "none" outside it, "alloc" before its    *)
(* allocations, "link" before PROCESSES.push_back links the node, "len"    *)
(* between the link and the update of the length of the list.  The timer   *)
(* handler runs as one step: while it is in service the interrupt          *)
(* controller delivers neither the timer nor the keyboard interrupt.       *)
(***************************************************************************)
\* number of processes spawned in a run
MaxSpawns == 3

InitSched ==
    /\ bm = BootBitMap
    /\ ptmem = BootTables
    /\ heap = << >>
    /\ halted = "no"
    /\ op = [name |-> "init", head |-> "none", pid |-> IdlePid,
             during |-> "none"]
    /\ handed = {}
    /\ live = << >>
    /\ mapped = << >>
    /\ cpu = [int_enabled |-> TRUE, pc |-> "none", tick |-> 0,
              procs |-> << >>, curr |-> IdlePid, next_pid |-> 1,
              context |-> BootContext, freed |-> << >>]

\* the selections of a switch added to those made since the last spawn or
\* exit, the last MaxSpawns + 1 of them kept
Selected(hist, pid) ==
    IF Len(hist) < MaxSpawns + 1 THEN Append(hist, pid)
    ELSE Append(Tail(hist), pid)

\* the timer interrupt: schedule(context) and the return.  One that arrives
\* between the writes of push_back runs schedule on a list that is half
\* updated; the run is not followed further.
ScheduleProcess ==
    /\ halted = "no"
    /\ cpu.int_enabled
    /\ \E s \in {schedule(cpu)} :
         /\ cpu' = s
         /\ op' = [name |-> "schedule",
                   head |-> IF cpu.tick < MAX_TICKS THEN "tick"
                            ELSE IF Len(cpu.procs) = 0 THEN "empty"
                            ELSE Head(cpu.procs).status,
                   pid |-> IF cpu.tick < MAX_TICKS \/ Len(cpu.procs) = 0
                           THEN IdlePid ELSE Head(cpu.procs).pid,
                   during |-> cpu.pc]
         /\ live' = IF cpu.tick < MAX_TICKS THEN live
                    ELSE IF Len(cpu.procs) # 0
                            /\ Head(cpu.procs).status = "Started"
                    THEN Selected(live, Head(cpu.procs).pid)
                    ELSE << >>
    /\ halted' = IF cpu.pc = "len" THEN "race" ELSE halted
    /\ UNCHANGED <<bm, ptmem, heap, handed, mapped>>

\* the keyboard interrupt whose command line spawns a process: the gate
\* disables the interrupts
KeyboardInterrupt ==
    /\ halted = "no"
    /\ cpu.int_enabled
    /\ cpu.pc = "none"
    /\ cpu.next_pid <= MaxSpawns
    /\ cpu' = [cpu EXCEPT !.int_enabled = FALSE, !.pc = "alloc"]
    /\ op' = [name |-> "keyboard", head |-> "none", pid |-> IdlePid,
              during |-> "none"]
    /\ UNCHANGED <<bm, ptmem, heap, halted, handed, live, mapped>>

\* the allocations of process_buffer and spawn (arguments, stack, context,
\* name, the Box of the PCB and the node of the list): the unlock of the
\* last of them leaves the interrupts enabled; CURR_PID += 1
SpawnAlloc ==
    /\ halted = "no"
    /\ cpu.pc = "alloc"
    /\ cpu' = [cpu EXCEPT !.int_enabled = TRUE, !.pc = "link",
                          !.next_pid = @ + 1]
    /\ op' = [name |-> "spawn_alloc", head |-> "none", pid |-> cpu.next_pid,
              during |-> "none"]
    /\ UNCHANGED <<bm, ptmem, heap, halted, handed, live, mapped>>

\* PROCESSES.push_back: the node linked after the tail
SpawnLink ==
    /\ halted = "no"
    /\ cpu.pc = "link"
    /\ \E args \in BOOLEAN :
         cpu' = [cpu EXCEPT
                    !.pc = "len",
                    !.procs = Append(@, [pid |-> cpu.next_pid - 1,
                                         status |-> "Started",
                                         args |-> args])]
    /\ op' = [name |-> "spawn_link", head |-> "none",
              pid |-> cpu.next_pid - 1, during |-> "none"]
    /\ live' = << >>
    /\ UNCHANGED <<bm, ptmem, heap, halted, handed, mapped>>

\* PROCESSES.push_back: the length of the list; then the return of the
\* handler to the code it interrupted
SpawnLen ==
    /\ halted = "no"
    /\ cpu.pc = "len"
    /\ cpu' = [cpu EXCEPT !.pc = "none", !.int_enabled = TRUE]
    /\ op' = [name |-> "spawn", head |-> "none", pid |-> cpu.next_pid - 1,
              during |-> "none"]
    /\ UNCHANGED <<bm, ptmem, heap, halted, handed, live, mapped>>

\* the running process returns into exit(); exit() panics when
\* CURR_PROCESS is None
ProcessExit ==
    /\ halted = "no"
    /\ cpu.pc = "none"
    /\ \E i \in DOMAIN cpu.procs :
         /\ cpu.procs[i].pid = cpu.context
         /\ cpu.procs[i].status = "Started"
    /\ IF cpu.curr = IdlePid
       THEN /\ halted' = "panic"
            /\ cpu' = cpu
       ELSE /\ halted' = halted
            /\ cpu' = exit(cpu)
    /\ op' = [name |-> "exit", head |-> "none", pid |-> cpu.context,
              during |-> "none"]
    /\ live' = << >>
    /\ UNCHANGED <<bm, ptmem, heap, handed, mapped>>

NextSched ==
    \/ ScheduleProcess
    \/ KeyboardInterrupt
    \/ SpawnAlloc
    \/ SpawnLink
    \/ SpawnLen
    \/ ProcessExit

SpecSched == InitSched /\ [][NextSched]_vars

\* the process whose context an Exited head leaves to be installed: the
\* first Started process of the rest of the list, the idle process when
\* there is none
RECURSIVE NextStarted(_)
NextStarted(procs) ==
    IF procs = << >> THEN IdlePid
    ELSE IF Head(procs).status = "Started" THEN Head(procs).pid
    ELSE NextStarted(Tail(procs))

\* C34: a call of schedule that takes an Exited process from the head of
\* the list removes it from the list, frees its context and its arguments
\* once each, and installs in that call the context of the next Started
\* process, or of the idle process when none remains.
C34_ExitedHeadSwitches ==
    [][(op'.name = "schedule" /\ op'.head = "Exited") =>
          /\ \A i \in DOMAIN cpu'.procs : cpu'.procs[i].pid # op'.pid
          /\ \A k \in FreedOf(Head(cpu.procs)) :
                k \in DOMAIN cpu'.freed /\ cpu'.freed[k] = 1
          /\ cpu'.context = NextStarted(Tail(cpu.procs))]_vars

\* the pids of the Started processes of the list
StartedPids(procs) ==
    {procs[i].pid : i \in {j \in DOMAIN procs : procs[j].status = "Started"}}

\* C35: the switches made since the last spawn or exit select the Started
\* processes in the order of the list: with n of them, two selections less
\* than n switches apart are of different processes and two selections n
\* switches apart are of the same one, each selected process is a Started
\* process of the list, and the idle context is installed only by a call
\* that finds the list empty.
C35_RoundRobin ==
    [][(op'.name = "schedule" /\ op'.head # "tick" /\ halted' = "no") =>
          LET n == Cardinality(StartedPids(cpu'.procs)) IN
          /\ op'.head = "Started" =>
                /\ cpu'.context = op'.pid
                /\ live' # << >>
                /\ live'[Len(live')] = op'.pid
          /\ \A i \in DOMAIN live' : live'[i] \in StartedPids(cpu'.procs)
          /\ \A i, j \in DOMAIN live' :
                /\ (i < j /\ j - i < n) => live'[i] # live'[j]
                /\ j - i = n => live'[i] = live'[j]
          /\ (cpu'.context = IdlePid /\ cpu.context # IdlePid)
                => Len(cpu.procs) = 0
          /\ op'.head = "empty" => cpu'.context = IdlePid]_vars

\* two processes have been selected in turn for two rounds
C35_Witness ==
    /\ op.name = "schedule"
    /\ Cardinality(StartedPids(cpu.procs)) = 2
    /\ Len(live) = 4
    /\ live[1] # live[2]

\* C37: no call of schedule runs between the writes of the push_back of
\* spawn: the timer interrupt is never taken while the keyboard handler
\* has linked the node of the new process and not yet updated the length
\* of PROCESSES.
C37_ListMutatedByOne ==
    ~(op.name = "schedule" /\ op.during = "len")

====
